---- MODULE Spec2Model ----
(***************************************************************************)
(* A model of the gold-trading-system decision / risk / backtest core.     *)
(*                                                                         *)
(*   Spec      backtesting/engine.py  BacktestEngine.run, bar by bar       *)
(*   SpecRisk  agents/risk/risk_management_agent.py  RiskManagementAgent   *)
(*   SpecMeta  agents/meta_agent.py  MetaAgentOrchestrator.get_decision    *)
(*   SpecDecision  agents/decision/decision_agent.py  DecisionAgent and    *)
(*             trading_system.py  IntegratedTradingSystem.analyze          *)
(*   SpecTrade backtesting/models.py  Trade.profit_loss / profit_loss_pct  *)
(*   SpecAdaptive  backtesting/adaptive_engine.py                          *)
(*             AdaptiveBacktestEngine.run                                  *)
(*   SpecDetector  backtesting/regime_detector.py  MarketRegimeDetector    *)
(*   SpecMetrics   backtesting/metrics.py  calculate_metrics               *)
(*   SpecConfig    the constructors of the risk agent, the orchestrator    *)
(*             and the regime detector, with the first call after them     *)
(*                                                                         *)
(* Prices, balances and P&L are integers (currency units); signals and     *)
(* confidences are integers in hundredths (80 is 0.80); percentages are    *)
(* compared by cross-multiplication, so no rounding enters a comparison.   *)
(* A bar's datetime is its 1-based position in the series (timestamps      *)
(* strictly increase).  Python's None is NULL for an optional number.      *)
(***************************************************************************)
EXTENDS Integers, Sequences, FiniteSets, TLC

VARIABLES
    \* ---- BacktestEngine (backtesting/engine.py) ----
    market_data,       \* the closes of market_data.data, in order
    commission,        \* self.commission
    capital,           \* self.capital
    trades,            \* self.trades: the closed-trade list
    equity_curve,      \* self.equity_curve
    current_trade,     \* self.current_trade (NoTrade for None)
    current_position,  \* self.strategy.current_position
    i,                 \* the loop index of run (1-based)
    pc,                \* where run stands
    result,            \* the BacktestResult run returns (NoResult before)
    opened,            \* history: how many times _open_trade has run
    entry_signal,      \* history: what should_enter returned to this bar's entry
                       \* check ("" for None; NotAsked when it was not called or
                       \* the bar has moved on)
    exit_check,        \* history: what the exit check of this bar did (NoCheck
                       \* once the bar's entry check has run)
    \* ---- RiskManagementAgent (agents/risk/risk_management_agent.py) ----
    risk_cfg,          \* the risk parameters set by __init__
    current_balance,   \* self.current_balance
    peak_balance,      \* self.peak_balance
    daily_trades,      \* self.daily_trades: date -> count (0 where no key)
    daily_pnl,         \* self.daily_pnl: date -> P&L (0 where no key)
    open_positions,    \* self.open_positions
    today,             \* the wall-clock date datetime.now() gives
    risk_output,       \* what analyze returned, if the last call was analyze
    last_call,         \* history: the last call made on the agent, with its arguments
    calls,             \* history: how many record_trade / update_balance calls were made
    loss_days,         \* history: the dates under which a loss of at least the daily
                       \* limit was recorded by one record_trade call
    \* ---- MetaAgentOrchestrator (agents/meta_agent.py) ----
    min_technical_confidence,  \* self.min_technical_confidence
    tech_output,       \* what technical_agent.analyze returned to the last get_decision
    ml_output,         \* what ml_filter.analyze returned to it (NoFilter: not called)
    decision,          \* the MetaDecision the last get_decision returned
    \* ---- DecisionAgent, IntegratedTradingSystem (trading_system.py) ----
    enabled,           \* DecisionAgent.enabled
    enable_signal,     \* IntegratedTradingSystem.enable_signal
    enable_ml,         \* IntegratedTradingSystem.enable_ml, after initialize()
    agent_weights,     \* IntegratedTradingSystem.agent_weights, in tenths
    agent_outputs,     \* the list the last DecisionAgent.analyze was given
    decision_output,   \* what the last DecisionAgent.analyze returned
    recommendation,    \* what the last IntegratedTradingSystem.analyze returned or raised
    \* ---- Trade (backtesting/models.py) ----
    trade,             \* a Trade object
    \* ---- AdaptiveBacktestEngine (backtesting/adaptive_engine.py) ----
    strategies,        \* the keys of self.strategies, in insertion order
    regime_stats,      \* self.regime_stats: regime -> count
    strategy_usage,    \* self.strategy_usage, by position in strategies
    adaptive_result,   \* what the last run returned or raised, with what the
                       \* detector and the backtests gave that call
    \* ---- MarketRegimeDetector (backtesting/regime_detector.py) ----
    detector_cfg,      \* the thresholds set by __init__
    regime_analysis,   \* what the last detect returned, with the indicator values
    \* ---- PerformanceMetrics (backtesting/metrics.py) ----
    metrics_input,     \* the objects calculate_metrics is called on
    metrics_results    \* what each call on them returned, in order

engineVars == <<market_data, commission, capital, trades, equity_curve,
                current_trade, current_position, i, pc, result, opened,
                entry_signal, exit_check>>

accountVars == <<current_balance, peak_balance, daily_trades, daily_pnl,
                 open_positions>>

riskVars == <<risk_cfg, accountVars, today, risk_output, last_call, calls,
              loss_days>>

metaVars == <<min_technical_confidence, tech_output, ml_output, decision>>

systemVars == <<enabled, enable_signal, enable_ml, agent_weights, agent_outputs,
                decision_output, recommendation>>

tradeVars == <<trade>>

adaptiveVars == <<strategies, regime_stats, strategy_usage, adaptive_result>>

detectorVars == <<detector_cfg, regime_analysis>>

metricsVars == <<metrics_input, metrics_results>>

vars == <<engineVars, riskVars, metaVars, systemVars, tradeVars, adaptiveVars,
          detectorVars, metricsVars>>

(***************************************************************************)
(* Bounds and domains                                                      *)
(***************************************************************************)
MaxBars == 3

NULL == -1

InitialCapital == 10000

Prices == {99, 100, 101}

Commissions == {0, 1}

\* What strategy.get_stop_loss and get_take_profit may return for an entry, as
\* <<stop_loss, take_profit>>: None for both (the BaseStrategy default), 0 for
\* both (falsy in Python), a level on each side of the entry with the stop
\* below (right for a long, wrong-sided for a short), or with the stop above.
StopChoices(entry_price) ==
    { <<NULL, NULL>>, <<0, 0>>,
      <<entry_price - 1, entry_price + 1>>,
      <<entry_price + 1, entry_price - 1>> }

\* What strategy.should_enter may return: "" stands for None (falsy), "HOLD"
\* for any other truthy string.
EntrySignals == {"", "BUY", "SELL", "HOLD"}

SeriesOf(n) == [1..n -> Prices]

(***************************************************************************)
(* backtesting/models.py                                                   *)
(***************************************************************************)
NoTrade ==
    [id |-> 0, entry_time |-> NULL, entry_price |-> NULL, trade_type |-> "NONE",
     size |-> 0, exit_time |-> NULL, exit_price |-> NULL, status |-> "NONE",
     stop_loss |-> NULL, take_profit |-> NULL, commission |-> 0]

Trade(id, entry_time, entry_price, trade_type, size, comm, stop_loss, take_profit) ==
    [id |-> id, entry_time |-> entry_time, entry_price |-> entry_price,
     trade_type |-> trade_type, size |-> size,
     exit_time |-> NULL, exit_price |-> NULL, status |-> "OPEN",
     stop_loss |-> stop_loss, take_profit |-> take_profit, commission |-> comm]

profit_lossIgnoringSide(t) ==
    IF t.status = "OPEN" \/ t.exit_price = NULL
    THEN 0
    ELSE (t.exit_price - t.entry_price) * t.size - t.commission

\* Trade.profit_loss
profit_loss(t) ==
    IF t.status = "OPEN" \/ t.exit_price = NULL
    THEN 0
    ELSE (IF t.trade_type = "BUY"
          THEN (t.exit_price - t.entry_price) * t.size
          ELSE (t.entry_price - t.exit_price) * t.size) - t.commission

\* Trade.profit_loss_pct, in percent, as the quotient [n, d]
profit_loss_pct(t) ==
    IF t.status = "OPEN" \/ t.exit_price = NULL
    THEN [n |-> 0, d |-> 1]
    ELSE [n |-> profit_loss(t) * 100, d |-> t.entry_price * t.size]

RECURSIVE SumPnl(_)
SumPnl(ts) ==
    IF ts = <<>> THEN 0 ELSE profit_loss(Head(ts)) + SumPnl(Tail(ts))

(***************************************************************************)
(* backtesting/metrics.py                                                  *)
(***************************************************************************)
NoResult ==
    [initial_capital |-> NULL, final_capital |-> NULL, trades |-> <<>>,
     total_return |-> 0, total_trades |-> NULL,
     winning_trades |-> NULL, losing_trades |-> NULL,
     max_drawdown |-> NULL, max_drawdown_pct |-> [n |-> 0, d |-> 1]]

ClosedOnly(ts) == SelectSeq(ts, LAMBDA t : t.status = "CLOSED")

RECURSIVE MaxOf(_)
MaxOf(values) ==
    IF Len(values) = 1 THEN values[1]
    ELSE LET rest == MaxOf(Tail(values))
         IN  IF values[1] >= rest THEN values[1] ELSE rest

RECURSIVE MinOf(_)
MinOf(values) ==
    IF Len(values) = 1 THEN values[1]
    ELSE LET rest == MinOf(Tail(values))
         IN  IF values[1] <= rest THEN values[1] ELSE rest

RunningMaxOverWholeCurve(curve, k) == MaxOf(curve)

\* np.maximum.accumulate(equity_array)[k]
RunningMax(curve, k) == MaxOf(SubSeq(curve, 1, k))

\* _calculate_max_drawdown: the absolute amount, and the percentage of
\* `initial` as the quotient [n, d]
_calculate_max_drawdown(curve, initial) ==
    IF curve = <<>> THEN [max_dd |-> 0, max_dd_pct |-> [n |-> 0, d |-> 1]]
    ELSE LET drawdown == [k \in 1..Len(curve) |-> curve[k] - RunningMax(curve, k)]
             lowest == MinOf(drawdown)
             max_dd == IF lowest < 0 THEN -lowest ELSE lowest
         IN  [max_dd |-> max_dd,
              max_dd_pct |-> IF initial > 0 THEN [n |-> max_dd * 100, d |-> initial]
                                            ELSE [n |-> 0, d |-> 1]]

calculate_metrics(ts, initial_capital, final_capital, curve) ==
    LET closed_trades == ClosedOnly(ts)
    IN  [initial_capital |-> initial_capital,
         final_capital   |-> final_capital,
         trades          |-> closed_trades,
         total_return    |-> final_capital - initial_capital,
         total_trades    |-> Len(closed_trades),
         winning_trades  |-> Len(SelectSeq(closed_trades, LAMBDA t : profit_loss(t) > 0)),
         losing_trades   |-> Len(SelectSeq(closed_trades, LAMBDA t : profit_loss(t) < 0)),
         max_drawdown    |-> _calculate_max_drawdown(curve, initial_capital).max_dd,
         max_drawdown_pct |-> _calculate_max_drawdown(curve, initial_capital).max_dd_pct]

(***************************************************************************)
(* backtesting/engine.py                                                   *)
(***************************************************************************)
\* No exit check made on this bar: no position was open, or the bar has moved
\* on.  asked: strategy.should_exit was called; answer: what it returned.
NotAsked == "NOT_ASKED"

NoCheck == [checked |-> FALSE, asked |-> FALSE, answer |-> FALSE]

EngineInit ==
    /\ \E n \in 1..MaxBars : market_data \in SeriesOf(n)
    /\ commission \in Commissions
    /\ capital = InitialCapital
    /\ trades = <<>>
    /\ equity_curve = <<InitialCapital>>
    /\ current_trade = NoTrade
    /\ current_position = "NONE"
    /\ i = 0
    /\ pc = "idle"
    /\ result = NoResult
    /\ opened = 0
    /\ entry_signal = NotAsked
    /\ exit_check = NoCheck

HasOpenTrade == current_trade # NoTrade

EntryAllowedAlways == TRUE

EntryAllowed == ~HasOpenTrade

\* `if self.current_trade.stop_loss:` - None and 0 are both falsy
LevelSet(level) == level # NULL /\ level # 0

StopLossHitStrict(t, current_price) ==
    /\ LevelSet(t.stop_loss)
    /\ IF t.trade_type = "BUY" THEN current_price < t.stop_loss
                               ELSE current_price > t.stop_loss

\* _check_exit, lines 198-206
StopLossHit(t, current_price) ==
    /\ LevelSet(t.stop_loss)
    /\ IF t.trade_type = "BUY" THEN current_price <= t.stop_loss
                               ELSE current_price >= t.stop_loss

\* _check_exit, lines 209-217
TakeProfitHit(t, current_price) ==
    /\ LevelSet(t.take_profit)
    /\ IF t.trade_type = "BUY" THEN current_price >= t.take_profit
                               ELSE current_price <= t.take_profit

\* _check_exit reaches strategy.should_exit only when neither level is hit.
StrategyAsked(t, current_price) ==
    t # NoTrade /\ ~StopLossHit(t, current_price) /\ ~TakeProfitHit(t, current_price)

\* _check_exit: stop-loss, then take-profit, then the strategy's predicate
\* (strategy_exit is what strategy.should_exit returns when it is reached).
_check_exit(t, current_price, strategy_exit) ==
    IF t = NoTrade THEN FALSE
    ELSE IF StopLossHit(t, current_price) THEN TRUE
    ELSE IF TakeProfitHit(t, current_price) THEN TRUE
    ELSE strategy_exit

ClosedTradeStatusKept(t, exit_time, exit_price) ==
    [t EXCEPT !.exit_time = exit_time, !.exit_price = exit_price]

ClosedTrade(t, exit_time, exit_price) ==
    [t EXCEPT !.exit_time = exit_time, !.exit_price = exit_price,
              !.status = "CLOSED"]

CapitalAfterCloseGross(cap, t) == cap + profit_loss(t) + t.commission

CapitalAfterClose(cap, t) == cap + profit_loss(t)

_close_trade(exit_time, exit_price) ==
    IF ~HasOpenTrade
    THEN UNCHANGED <<capital, trades, current_trade, current_position>>
    ELSE LET t == ClosedTrade(current_trade, exit_time, exit_price)
         IN  /\ capital' = CapitalAfterClose(capital, t)
             /\ trades' = Append(trades, t)
             /\ current_trade' = NoTrade
             /\ current_position' = "NONE"

_open_trade(entry_time, entry_price, signal, stop_loss, take_profit) ==
    LET trade_id == Len(trades) + 1
        trade_type == IF signal = "BUY" THEN "BUY" ELSE "SELL"
        position_type == IF signal = "BUY" THEN "LONG" ELSE "SHORT"
    IN  /\ current_trade' = Trade(trade_id, entry_time, entry_price, trade_type,
                                  1, commission, stop_loss, take_profit)
        /\ current_position' = position_type
        /\ opened' = opened + 1
        /\ UNCHANGED <<capital, trades>>

EquityRealizedOnly(cap, t, current_price) == cap

\* _update_equity: capital plus the floating P&L of the open trade
Equity(cap, t, current_price) ==
    IF t = NoTrade THEN cap
    ELSE IF t.trade_type = "BUY"
         THEN cap + (current_price - t.entry_price) * t.size
         ELSE cap + (t.entry_price - current_price) * t.size

\* The body of run's loop, in the order of its statements: the exit check,
\* the entry check, the equity update.
BarStepsEntryFirst == <<"entry", "exit", "equity">>

BarSteps == <<"exit", "entry", "equity">>

StepIndex(step) == CHOOSE k \in 1..Len(BarSteps) : BarSteps[k] = step

\* The control flow of the loop: the next statement of the body, the next bar
\* after the last statement, the code after the loop after the last bar.
Advance ==
    IF StepIndex(pc) < Len(BarSteps)
    THEN pc' = BarSteps[StepIndex(pc) + 1] /\ i' = i
    ELSE IF i < Len(market_data)
         THEN pc' = BarSteps[1] /\ i' = i + 1
         ELSE pc' = "finish" /\ i' = i

\* run, lines 75-84: _reset, then the loop starts at the first bar.
RunStart ==
    /\ pc \in {"idle", "done"}
    /\ capital' = InitialCapital
    /\ trades' = <<>>
    /\ equity_curve' = <<InitialCapital>>
    /\ current_trade' = NoTrade
    /\ current_position' = "NONE"
    /\ opened' = 0
    /\ result' = NoResult
    /\ entry_signal' = NotAsked
    /\ exit_check' = NoCheck
    /\ i' = 1
    /\ pc' = BarSteps[1]
    /\ UNCHANGED <<market_data, commission>>
    /\ UNCHANGED <<riskVars, metaVars, systemVars, tradeVars,
                   adaptiveVars, detectorVars, metricsVars>>

\* run, lines 90-95: the exit check of the bar.
BarExit ==
    /\ pc = "exit"
    /\ IF HasOpenTrade
       THEN \E strategy_exit \in BOOLEAN :
               LET asked == StrategyAsked(current_trade, market_data[i])
               IN  \* should_exit returns something only when it is called
                   /\ asked \/ ~strategy_exit
                   /\ exit_check' = [checked |-> TRUE, asked |-> asked,
                                     answer |-> strategy_exit]
                   /\ IF _check_exit(current_trade, market_data[i], strategy_exit)
                      THEN _close_trade(i, market_data[i])
                      ELSE UNCHANGED <<capital, trades, current_trade, current_position>>
       ELSE /\ exit_check' = NoCheck
            /\ UNCHANGED <<capital, trades, current_trade, current_position>>
    /\ Advance
    /\ UNCHANGED <<market_data, commission, equity_curve, result, opened,
                   entry_signal>>
    /\ UNCHANGED <<riskVars, metaVars, systemVars, tradeVars,
                   adaptiveVars, detectorVars, metricsVars>>

\* run, lines 97-108: the entry check of the bar.
BarEntry ==
    /\ pc = "entry"
    /\ IF EntryAllowed
       THEN \E signal \in EntrySignals :
               /\ entry_signal' = signal
               /\ IF signal # ""
                  THEN \E levels \in StopChoices(market_data[i]) :
                          _open_trade(i, market_data[i], signal, levels[1], levels[2])
                  ELSE UNCHANGED <<capital, trades, current_trade, current_position,
                                   opened>>
       ELSE /\ entry_signal' = NotAsked
            /\ UNCHANGED <<capital, trades, current_trade, current_position, opened>>
    /\ exit_check' = NoCheck
    /\ Advance
    /\ UNCHANGED <<market_data, commission, equity_curve, result>>
    /\ UNCHANGED <<riskVars, metaVars, systemVars, tradeVars,
                   adaptiveVars, detectorVars, metricsVars>>

\* run, lines 110-114: _update_equity, then the next bar or the end of the loop.
BarEquity ==
    /\ pc = "equity"
    /\ equity_curve' = Append(equity_curve, Equity(capital, current_trade, market_data[i]))
    /\ entry_signal' = NotAsked
    /\ Advance
    /\ UNCHANGED <<market_data, commission, capital, trades, current_trade,
                   current_position, result, opened, exit_check>>
    /\ UNCHANGED <<riskVars, metaVars, systemVars, tradeVars,
                   adaptiveVars, detectorVars, metricsVars>>

CurveAfterLoopWithFinalCapital(curve, cap) == Append(curve, cap)

\* run, lines 116-119: nothing is appended to the curve after the loop
CurveAfterLoop(curve, cap) == curve

\* run, lines 116-136: the forced close, then the metrics.
Finish ==
    /\ pc = "finish"
    /\ IF HasOpenTrade
       THEN _close_trade(Len(market_data), market_data[Len(market_data)])
       ELSE UNCHANGED <<capital, trades, current_trade, current_position>>
    /\ equity_curve' = CurveAfterLoop(equity_curve, capital')
    /\ result' = calculate_metrics(trades', InitialCapital, capital', equity_curve')
    /\ pc' = "done"
    /\ UNCHANGED <<market_data, commission, i, opened, entry_signal, exit_check>>
    /\ UNCHANGED <<riskVars, metaVars, systemVars, tradeVars,
                   adaptiveVars, detectorVars, metricsVars>>

(***************************************************************************)
(* agents/risk/risk_management_agent.py                                    *)
(*                                                                         *)
(* Signals are in hundredths, confidences in hundred-thousandths (0.9 is   *)
(* 90000), a quotient is a pair [n, d] with d > 0, a date is a day number. *)
(***************************************************************************)
MaxCalls == 3

Days == 1..2

account_balance == 10000

\* P&L values handed to record_trade and balances handed to update_balance.
PnLs == {-700, -350, -300, 300}

Balances == {9100, 10400}

\* Evaluation requests: the signal source's output, the last close, and the
\* stop-loss / take-profit proposed with it.
RiskSignals == {-80, 5, 80}

RiskConfidences == {90000}

RiskLevels ==
    { [price |-> 2000, stop_loss |-> 1980, take_profit |-> 2040],
      [price |-> 2000, stop_loss |-> 1980, take_profit |-> 2020],
      [price |-> 2000, stop_loss |-> 2020, take_profit |-> 1960],
      [price |-> 2000, stop_loss |-> 2020, take_profit |-> 2040],
      [price |-> 20,   stop_loss |-> 18,   take_profit |-> 23] }

RiskDefaults ==
    [max_risk_per_trade_pct     |-> 1,
     max_portfolio_drawdown_pct |-> 8,
     max_concurrent_trades      |-> 1,
     max_daily_trades           |-> 3,
     daily_loss_limit_pct       |-> 3,
     min_risk_reward_x10        |-> 15]

Abs(x) == IF x < 0 THEN -x ELSE x

Max(x, y) == IF x >= y THEN x ELSE y

Rat(n, d) == IF d < 0 THEN [n |-> -n, d |-> -d] ELSE [n |-> n, d |-> d]

RatZero == [n |-> 0, d |-> 1]

R_NoSignal == "No signal - neutral"
R_MaxDrawdown == "Max drawdown exceeded"
R_MaxConcurrent == "Max concurrent trades reached"
R_DailyTrades == "Daily trade limit reached"
R_DailyLoss == "Daily loss limit hit"
R_PoorRR == "Poor R/R ratio"
R_InvalidSL == "Invalid stop loss"
R_InvalidTP == "Invalid take profit"
W_HighDrawdown == "Warning: High drawdown"
W_SmallPosition == "Very small position size"
W_PositionLimited == "Position size limited to 10% of balance"

NoOutput ==
    [risk_decision |-> "NONE", signal |-> 0, confidence |-> 0,
     rejection_reasons |-> <<>>, warnings |-> <<>>,
     position_size |-> RatZero, risk_amount |-> RatZero,
     stop_loss |-> 0, take_profit |-> 0, risk_reward_ratio |-> RatZero]

NoCall ==
    [op |-> "none", signal |-> 0, confidence |-> 0, price |-> 0,
     stop_loss |-> 0, take_profit |-> 0, pnl |-> 0, date |-> 0, new_balance |-> 0]

\* Nothing returned yet by the technical agent, the ML filter, get_decision.
NoTech ==
    [signal |-> 0, confidence |-> 0, price |-> 0, stop_loss |-> 0, take_profit |-> 0,
     evidence |-> [reasons |-> 0, risk_reward_ratio_x10 |-> 0, trend |-> FALSE, rsi |-> 0]]

NoFilter ==
    [filter_decision |-> "NONE", signal |-> 0, confidence |-> 0, filter_reason |-> ""]

NoDecision ==
    [final_signal |-> 0, final_confidence |-> 0, action |-> "NONE",
     position_size |-> RatZero, stop_loss |-> 0, take_profit |-> 0,
     reasoning_chain |-> <<>>, veto_reasons |-> <<>>, warnings |-> <<>>]

RiskInit ==
    /\ risk_cfg = RiskDefaults
    /\ current_balance = account_balance
    /\ peak_balance = account_balance
    /\ daily_trades = [d \in Days |-> 0]
    /\ daily_pnl = [d \in Days |-> 0]
    /\ open_positions = <<>>
    /\ today = 1
    /\ risk_output = NoOutput
    /\ last_call = NoCall
    /\ calls = 0
    /\ loss_days = {}

\* _calculate_current_drawdown, in percent, as a quotient.
_calculate_current_drawdown ==
    IF peak_balance = 0 THEN RatZero
    ELSE LET drawdown == Rat((peak_balance - current_balance) * 100, peak_balance)
         IN  IF drawdown.n < 0 THEN RatZero ELSE drawdown

DrawdownExceededInverted(cfg) ==
    LET dd == _calculate_current_drawdown
    IN  dd.n <= cfg.max_portfolio_drawdown_pct * dd.d

\* current_drawdown >= self.max_portfolio_drawdown_pct
DrawdownExceeded(cfg) ==
    LET dd == _calculate_current_drawdown
    IN  dd.n >= cfg.max_portfolio_drawdown_pct * dd.d

\* current_drawdown >= self.max_portfolio_drawdown_pct * 0.8
DrawdownHigh(cfg) ==
    LET dd == _calculate_current_drawdown
    IN  dd.n * 10 >= cfg.max_portfolio_drawdown_pct * 8 * dd.d

DailyLossHitStrict(cfg) ==
    Abs(daily_pnl[today]) * 100 > cfg.daily_loss_limit_pct * account_balance

DailyLossHitOfCurrentBalance(cfg) ==
    Abs(daily_pnl[today]) * 100 >= cfg.daily_loss_limit_pct * current_balance

\* abs(self.daily_pnl.get(today, 0.0)) / self.account_balance * 100
\*     >= self.daily_loss_limit_pct
DailyLossHit(cfg) ==
    Abs(daily_pnl[today]) * 100 >= cfg.daily_loss_limit_pct * account_balance

When(cond, reason) == IF cond THEN <<reason>> ELSE <<>>

FirstOnly(reasons) == IF reasons = <<>> THEN <<>> ELSE <<Head(reasons)>>

_check_constraintsFirstFailure(cfg) ==
    [rejection_reasons |->
        FirstOnly(When(DrawdownExceeded(cfg), R_MaxDrawdown)
                  \o When(Len(open_positions) >= cfg.max_concurrent_trades, R_MaxConcurrent)
                  \o When(daily_trades[today] >= cfg.max_daily_trades, R_DailyTrades)
                  \o When(DailyLossHit(cfg), R_DailyLoss)),
     warnings |->
        When(~DrawdownExceeded(cfg) /\ DrawdownHigh(cfg), W_HighDrawdown)]

_check_constraints(cfg) ==
    [rejection_reasons |->
        When(DrawdownExceeded(cfg), R_MaxDrawdown)
        \o When(Len(open_positions) >= cfg.max_concurrent_trades, R_MaxConcurrent)
        \o When(daily_trades[today] >= cfg.max_daily_trades, R_DailyTrades)
        \o When(DailyLossHit(cfg), R_DailyLoss),
     warnings |->
        When(~DrawdownExceeded(cfg) /\ DrawdownHigh(cfg), W_HighDrawdown)]

RiskAmountPctAsFraction(cfg) == Rat(current_balance * cfg.max_risk_per_trade_pct, 1)

\* risk_amount = self.current_balance * (self.max_risk_per_trade_pct / 100)
RiskAmount(cfg) == Rat(current_balance * cfg.max_risk_per_trade_pct, 100)

ExceedsCapNever(position_size, current_price) == FALSE

\* position_size * current_price > self.current_balance * 0.1
ExceedsCap(position_size, current_price) ==
    position_size.n * current_price * 10 > current_balance * position_size.d

_calculate_position_size(cfg, current_price, stop_loss, take_profit, signal_direction) ==
    LET risk_amount == RiskAmount(cfg)
        sl_distance == IF signal_direction > 0 THEN current_price - stop_loss
                                               ELSE stop_loss - current_price
        tp_distance == IF signal_direction > 0 THEN take_profit - current_price
                                               ELSE current_price - take_profit
        rejection_reasons == When(sl_distance <= 0, R_InvalidSL)
                             \o When(tp_distance <= 0, R_InvalidTP)
    IN  IF rejection_reasons # <<>>
        THEN [approved |-> FALSE, position_size |-> RatZero, risk_amount |-> RatZero,
              stop_loss_price |-> stop_loss, take_profit_price |-> take_profit,
              risk_reward_ratio |-> RatZero,
              rejection_reasons |-> rejection_reasons, warnings |-> <<>>]
        ELSE LET position_size == Rat(risk_amount.n, risk_amount.d * sl_distance)
                 rr_ratio == Rat(tp_distance, sl_distance)
                 small == position_size.n * 100 < position_size.d
                 limited == ExceedsCap(position_size, current_price)
             IN  [approved |-> TRUE,
                  position_size |-> IF limited THEN Rat(current_balance, 10 * current_price)
                                               ELSE position_size,
                  risk_amount |-> risk_amount,
                  stop_loss_price |-> stop_loss, take_profit_price |-> take_profit,
                  risk_reward_ratio |-> rr_ratio,
                  rejection_reasons |-> <<>>,
                  warnings |-> When(small, W_SmallPosition)
                               \o When(limited, W_PositionLimited)]

_reject_trade(signal_output, reasons, warnings) ==
    [risk_decision |-> "REJECTED", signal |-> 0, confidence |-> 90000,
     rejection_reasons |-> reasons, warnings |-> warnings,
     position_size |-> RatZero, risk_amount |-> RatZero,
     stop_loss |-> 0, take_profit |-> 0, risk_reward_ratio |-> RatZero]

_approve_tradeDirectionOnly(signal_output, risk_assessment, warnings) ==
    [risk_decision |-> "APPROVED",
     signal |-> IF signal_output.signal > 0 THEN 100 ELSE -100,
     confidence |-> signal_output.confidence,
     rejection_reasons |-> <<>>, warnings |-> warnings,
     position_size |-> risk_assessment.position_size,
     risk_amount |-> risk_assessment.risk_amount,
     stop_loss |-> risk_assessment.stop_loss_price,
     take_profit |-> risk_assessment.take_profit_price,
     risk_reward_ratio |-> risk_assessment.risk_reward_ratio]

\* _approve_trade, lines 260-296: signal=signal_output.signal
_approve_trade(signal_output, risk_assessment, warnings) ==
    LET c0 == signal_output.confidence
        c1 == IF warnings # <<>> THEN (c0 * 9) \div 10 ELSE c0
        c2 == IF risk_assessment.risk_reward_ratio.n * 10
                   < 20 * risk_assessment.risk_reward_ratio.d
              THEN (c1 * 95) \div 100 ELSE c1
    IN  [risk_decision |-> "APPROVED", signal |-> signal_output.signal,
         confidence |-> c2,
         rejection_reasons |-> <<>>, warnings |-> warnings,
         position_size |-> risk_assessment.position_size,
         risk_amount |-> risk_assessment.risk_amount,
         stop_loss |-> risk_assessment.stop_loss_price,
         take_profit |-> risk_assessment.take_profit_price,
         risk_reward_ratio |-> risk_assessment.risk_reward_ratio]

\* RiskManagementAgent.analyze: the AgentOutput it returns.
analyze(cfg, signal_output, current_price, stop_loss, take_profit) ==
    IF Abs(signal_output.signal) < 10
    THEN _reject_trade(signal_output, <<R_NoSignal>>, <<>>)
    ELSE LET constraints == _check_constraints(cfg)
         IN  IF constraints.rejection_reasons # <<>>
             THEN _reject_trade(signal_output, constraints.rejection_reasons,
                                constraints.warnings)
             ELSE LET risk_assessment ==
                          _calculate_position_size(cfg, current_price, stop_loss, take_profit,
                                                   IF signal_output.signal > 0 THEN 1 ELSE -1)
                      rr == risk_assessment.risk_reward_ratio
                      rejection_reasons ==
                          When(rr.n * 10 < cfg.min_risk_reward_x10 * rr.d, R_PoorRR)
                  IN  IF rejection_reasons # <<>> \/ ~risk_assessment.approved
                      THEN _reject_trade(signal_output,
                                         rejection_reasons \o risk_assessment.rejection_reasons,
                                         constraints.warnings \o risk_assessment.warnings)
                      ELSE _approve_trade(signal_output, risk_assessment, constraints.warnings)

\* A call on the risk agent that is not get_decision: what the last
\* get_decision returned is no longer the last thing returned.
MetaReturnsCleared ==
    /\ tech_output' = NoTech
    /\ ml_output' = NoFilter
    /\ decision' = NoDecision
    /\ UNCHANGED min_technical_confidence

AnalyzeCountsTrade ==
    /\ daily_trades' = [daily_trades EXCEPT ![today] = @ + 1]
    /\ UNCHANGED <<current_balance, peak_balance, daily_pnl, open_positions>>

AnalyzeOccupiesSlot ==
    /\ open_positions' = IF risk_output'.risk_decision = "APPROVED"
                         THEN Append(open_positions, last_call'.price)
                         ELSE open_positions
    /\ UNCHANGED <<current_balance, peak_balance, daily_trades, daily_pnl>>

\* What analyze assigns on the agent: nothing.
AnalyzeEffect == UNCHANGED accountVars

Analyze ==
    /\ \E sig \in RiskSignals, conf \in RiskConfidences, lv \in RiskLevels :
          /\ risk_output' = analyze(risk_cfg, [signal |-> sig, confidence |-> conf],
                                    lv.price, lv.stop_loss, lv.take_profit)
          /\ last_call' = [NoCall EXCEPT !.op = "analyze", !.signal = sig,
                                         !.confidence = conf, !.price = lv.price,
                                         !.stop_loss = lv.stop_loss,
                                         !.take_profit = lv.take_profit]
    /\ AnalyzeEffect
    /\ UNCHANGED <<risk_cfg, today, calls, loss_days>>
    /\ UNCHANGED <<engineVars, metaVars, systemVars, tradeVars,
                   adaptiveVars, detectorVars, metricsVars>>

PeakAfterOverwrite(peak, new_balance) == new_balance

\* update_balance, lines 322-323
PeakAfter(peak, new_balance) == IF new_balance > peak THEN new_balance ELSE peak

update_balance(new_balance) ==
    /\ current_balance' = new_balance
    /\ peak_balance' = PeakAfter(peak_balance, new_balance)

UpdateBalance ==
    /\ calls < MaxCalls
    /\ \E new_balance \in Balances :
          /\ update_balance(new_balance)
          /\ last_call' = [NoCall EXCEPT !.op = "update_balance",
                                         !.new_balance = new_balance]
    /\ calls' = calls + 1
    /\ risk_output' = NoOutput
    /\ UNCHANGED <<risk_cfg, daily_trades, daily_pnl, open_positions, today, loss_days>>
    /\ MetaReturnsCleared
    /\ UNCHANGED <<engineVars, systemVars, tradeVars,
                   adaptiveVars, detectorVars, metricsVars>>

record_tradeUnderWallClock(pnl, date_str) ==
    /\ daily_trades' = [daily_trades EXCEPT ![today] = @ + 1]
    /\ daily_pnl' = [daily_pnl EXCEPT ![today] = @ + pnl]
    /\ update_balance(current_balance + pnl)

\* record_trade, lines 325-336: date_str is the date of the trade's timestamp.
record_trade(pnl, date_str) ==
    /\ daily_trades' = [daily_trades EXCEPT ![date_str] = @ + 1]
    /\ daily_pnl' = [daily_pnl EXCEPT ![date_str] = @ + pnl]
    /\ update_balance(current_balance + pnl)

RecordTrade ==
    /\ calls < MaxCalls
    /\ \E pnl \in PnLs, date_str \in Days :
          /\ record_trade(pnl, date_str)
          /\ last_call' = [NoCall EXCEPT !.op = "record_trade", !.pnl = pnl,
                                         !.date = date_str]
          /\ loss_days' = IF (-pnl) * 100 >= risk_cfg.daily_loss_limit_pct * account_balance
                          THEN loss_days \cup {date_str} ELSE loss_days
    /\ calls' = calls + 1
    /\ risk_output' = NoOutput
    /\ UNCHANGED <<risk_cfg, open_positions, today>>
    /\ MetaReturnsCleared
    /\ UNCHANGED <<engineVars, systemVars, tradeVars,
                   adaptiveVars, detectorVars, metricsVars>>

\* The wall clock passes midnight.
ClockTick ==
    /\ today + 1 \in Days
    /\ today' = today + 1
    /\ risk_output' = NoOutput
    /\ last_call' = NoCall
    /\ UNCHANGED <<risk_cfg, accountVars, calls, loss_days>>
    /\ MetaReturnsCleared
    /\ UNCHANGED <<engineVars, systemVars, tradeVars,
                   adaptiveVars, detectorVars, metricsVars>>

(***************************************************************************)
(* agents/ml/simple_ml_filter.py and agents/meta_agent.py                  *)
(***************************************************************************)
\* What the technical agent may hand to get_decision: a signal, a confidence,
\* the evidence the ML filter reads from its metadata, and the last close with
\* the stop-loss / take-profit of its metadata.
\* Account operations on the orchestrator's risk agent in one run.
MaxMetaCalls == 1

TechSignals == {-80, -30, 5, 30, 35, 80}

TechConfidences == {30000, 45000, 60000, 80000}

TechEvidence ==
    { [reasons |-> 1, risk_reward_ratio_x10 |-> 10, trend |-> FALSE, rsi |-> 50],
      [reasons |-> 3, risk_reward_ratio_x10 |-> 20, trend |-> TRUE,  rsi |-> 25] }

MetaLevels ==
    { [price |-> 2000, stop_loss |-> 1980, take_profit |-> 2040],
      [price |-> 2000, stop_loss |-> 2020, take_profit |-> 1960] }

MinConfidences == {30000, 50000}

V_LowConfidence == "Technical confidence too low"
V_NoSignal == "No clear technical signal"
V_MLRejected == "ML Filter rejected"
V_WeakSignal == "Weak final signal"

Min(x, y) == IF x <= y THEN x ELSE y

Clip(x, lo, hi) == Max(lo, Min(hi, x))

\* SimpleMLFilter._evaluate_medium_signal
_evaluate_medium_signal(evidence) ==
    LET score == 50000
                 + (IF evidence.reasons >= 3 THEN 15000
                    ELSE IF evidence.reasons >= 2 THEN 10000 ELSE 0)
                 + (IF evidence.risk_reward_ratio_x10 >= 20 THEN 15000
                    ELSE IF evidence.risk_reward_ratio_x10 >= 15 THEN 10000 ELSE 0)
                 + (IF evidence.trend THEN 10000 ELSE 0)
                 + (IF evidence.rsi < 30 \/ evidence.rsi > 70 THEN 10000 ELSE 0)
    IN  Clip(score, 0, 100000)

_approve_signal(tech, confidence, reason) ==
    [filter_decision |-> "APPROVE", signal |-> tech.signal,
     confidence |-> confidence, filter_reason |-> reason]

_reject_signal(tech, confidence, reason) ==
    [filter_decision |-> "REJECT", signal |-> 0,
     confidence |-> confidence, filter_reason |-> reason]

\* SimpleMLFilter.analyze
ml_filter_analyze(tech) ==
    IF tech.confidence >= 70000
    THEN _approve_signal(tech, 90000, "Strong technical signal - approved")
    ELSE IF tech.confidence < 40000
    THEN _reject_signal(tech, 80000, "Weak technical signal - rejected")
    ELSE LET filter_score == _evaluate_medium_signal(tech.evidence)
         IN  IF filter_score > 50000
             THEN _approve_signal(tech, filter_score, "Medium signal approved")
             ELSE _reject_signal(tech, 100000 - filter_score, "Medium signal rejected")

\* _calculate_weighted_signal, in ten-thousandths: weights 0.50, 0.20, 0.30 on
\* signals in hundredths.
_calculate_weighted_signal(tech, ml, risk) ==
    Clip(tech.signal * 50 + ml.signal * 20 + risk.signal * 30, -10000, 10000)

\* np.std(signals with |s| > 0.1) > 0.5, on signals in hundredths: the
\* population variance n * sum(x^2) - (sum x)^2 over n^2 against 50^2.
SignalsDisagree(s1, s2, s3) ==
    LET kept == SelectSeq(<<s1, s2, s3>>, LAMBDA x : Abs(x) > 10)
        n == Len(kept)
        sum == IF n = 0 THEN 0 ELSE IF n = 1 THEN kept[1]
               ELSE IF n = 2 THEN kept[1] + kept[2] ELSE kept[1] + kept[2] + kept[3]
        sq == IF n = 0 THEN 0 ELSE IF n = 1 THEN kept[1] * kept[1]
              ELSE IF n = 2 THEN kept[1] * kept[1] + kept[2] * kept[2]
              ELSE kept[1] * kept[1] + kept[2] * kept[2] + kept[3] * kept[3]
    IN  n > 0 /\ n * sq - sum * sum > 2500 * n * n

\* _calculate_weighted_confidence, in ten-millionths: weights in hundredths on
\* confidences in hundred-thousandths.
_calculate_weighted_confidence(tech, ml, risk) ==
    LET weighted_conf == tech.confidence * 50 + ml.confidence * 20 + risk.confidence * 30
        penalised == IF SignalsDisagree(tech.signal, ml.signal, risk.signal)
                     THEN (weighted_conf * 8) \div 10 ELSE weighted_conf
    IN  Clip(penalised, 0, 10000000)

_create_hold_decision(reasoning_chain, veto_reasons, warnings) ==
    [final_signal |-> 0, final_confidence |-> 0, action |-> "HOLD",
     position_size |-> RatZero, stop_loss |-> 0, take_profit |-> 0,
     reasoning_chain |-> reasoning_chain, veto_reasons |-> veto_reasons,
     warnings |-> warnings]

TechnicalConfidenceLowInverted(min_conf, tech) == tech.confidence > min_conf

\* tech_output.confidence < self.min_technical_confidence
TechnicalConfidenceLow(min_conf, tech) == tech.confidence < min_conf

FilterVetoIgnored(ml) == FALSE

\* filter_decision == 'REJECT'
FilterVetoes(ml) == ml.filter_decision = "REJECT"

ActionForInclusive(final_signal) ==
    IF final_signal >= 3000 THEN "BUY"
    ELSE IF final_signal <= -3000 THEN "SELL"
    ELSE "HOLD"

\* get_decision, lines 193-199: final_signal > 0.3, < -0.3, else
ActionFor(final_signal) ==
    IF final_signal > 3000 THEN "BUY"
    ELSE IF final_signal < -3000 THEN "SELL"
    ELSE "HOLD"

\* MetaAgentOrchestrator.get_decision: the MetaDecision it returns together
\* with what each stage it called returned (ml and risk are NoFilter and
\* NoOutput for a stage that was not called).
get_decision(min_conf, cfg, tech) ==
    IF TechnicalConfidenceLow(min_conf, tech)
    THEN [decision |-> _create_hold_decision(<<"Technical">>, <<V_LowConfidence>>, <<>>),
          ml |-> NoFilter, risk |-> NoOutput]
    ELSE IF Abs(tech.signal) < 10
    THEN [decision |-> _create_hold_decision(<<"Technical">>, <<V_NoSignal>>, <<>>),
          ml |-> NoFilter, risk |-> NoOutput]
    ELSE LET ml == ml_filter_analyze(tech)
         IN  IF FilterVetoes(ml)
             THEN [decision |-> _create_hold_decision(<<"Technical", "ML Filter">>,
                                                     <<V_MLRejected>>, <<>>),
                   ml |-> ml, risk |-> NoOutput]
             ELSE LET risk == analyze(cfg, [signal |-> ml.signal, confidence |-> ml.confidence],
                                      tech.price, tech.stop_loss, tech.take_profit)
                      chain == <<"Technical", "ML Filter", "Risk">>
                  IN  IF risk.risk_decision = "REJECTED"
                      THEN [decision |-> _create_hold_decision(chain, risk.rejection_reasons,
                                                              risk.warnings),
                            ml |-> ml, risk |-> risk]
                      ELSE LET final_signal == _calculate_weighted_signal(tech, ml, risk)
                               final_confidence == _calculate_weighted_confidence(tech, ml, risk)
                               action == ActionFor(final_signal)
                           IN  [decision |->
                                   [final_signal |-> final_signal,
                                    final_confidence |-> final_confidence,
                                    action |-> action,
                                    position_size |-> risk.position_size,
                                    stop_loss |-> tech.stop_loss,
                                    take_profit |-> tech.take_profit,
                                    reasoning_chain |-> chain,
                                    veto_reasons |-> When(action = "HOLD", V_WeakSignal),
                                    warnings |-> risk.warnings],
                                ml |-> ml, risk |-> risk]

MetaInit ==
    /\ min_technical_confidence \in MinConfidences
    /\ tech_output = NoTech
    /\ ml_output = NoFilter
    /\ decision = NoDecision

\* The orchestrator at rest, for the specifications of the other components.
MetaIdle ==
    /\ min_technical_confidence = 50000
    /\ tech_output = NoTech
    /\ ml_output = NoFilter
    /\ decision = NoDecision

GetDecision ==
    /\ \E sig \in TechSignals, conf \in TechConfidences, ev \in TechEvidence,
          lv \in MetaLevels :
          LET tech == [signal |-> sig, confidence |-> conf, price |-> lv.price,
                       stop_loss |-> lv.stop_loss, take_profit |-> lv.take_profit,
                       evidence |-> ev]
              got == get_decision(min_technical_confidence, risk_cfg, tech)
          IN  /\ tech_output' = tech
              /\ ml_output' = got.ml
              /\ risk_output' = got.risk
              /\ decision' = got.decision
              /\ last_call' = IF got.risk = NoOutput THEN NoCall
                              ELSE [NoCall EXCEPT !.op = "analyze",
                                                  !.signal = got.ml.signal,
                                                  !.confidence = got.ml.confidence,
                                                  !.price = lv.price,
                                                  !.stop_loss = lv.stop_loss,
                                                  !.take_profit = lv.take_profit]
    /\ AnalyzeEffect
    /\ UNCHANGED <<risk_cfg, today, calls, loss_days, min_technical_confidence>>
    /\ UNCHANGED <<engineVars, systemVars, tradeVars,
                   adaptiveVars, detectorVars, metricsVars>>

\* MetaAgentOrchestrator.update_balance: self.risk_agent.update_balance(...)
MetaUpdateBalance ==
    /\ calls < MaxMetaCalls
    /\ UpdateBalance

\* record_trade on the orchestrator's risk agent
MetaRecordTrade ==
    /\ calls < MaxMetaCalls
    /\ RecordTrade

(***************************************************************************)
(* agents/decision/decision_agent.py and trading_system.py                 *)
(* Here signals are in tenths (10 is 1.0), confidences in hundredths       *)
(* (104 is 1.04) and agent weights in tenths (13 is 1.3); aggregated       *)
(* values are exact quotients.                                             *)
(***************************************************************************)
\* What a signal source hands over: SignalAgent gives any signal in [-1, 1]
\* with confidence 0 (disabled, fewer than 30 bars) or in [0.3, 0.95]; the ML
\* agent gives BUY / SELL / HOLD with a confidence.
SourceSignals == {-10, 0, 5, 10}

SourceConfidences == {0, 50, 80}

Recommendations == {"BUY", "SELL", "HOLD"}

Regimes == {"trending_up", "ranging", "volatile", "unknown"}

AgentOutput(has_signal, signal, confidence) ==
    [has_signal |-> has_signal, signal |-> signal, confidence |-> confidence]

\* The lists DecisionAgent.analyze is called with directly: no output, one,
\* or two.
DirectOutputs ==
    { AgentOutput(h, sg, c) : h \in BOOLEAN, sg \in {-10, 10}, c \in {0, 80} }

DirectLists ==
    {<<>>} \cup {<<a>> : a \in DirectOutputs}
           \cup {<<a, b>> : a \in DirectOutputs, b \in DirectOutputs}

NoDecisionOutput ==
    [signal |-> RatZero, confidence |-> RatZero, decision |-> "NONE",
     status |-> "none", contributions |-> 0]

NoRecommendation ==
    [raised |-> "none", action |-> "NONE", signal |-> RatZero,
     confidence |-> RatZero, market_regime |-> "none"]

RECURSIVE SumConfidence(_)
SumConfidence(outputs) ==
    IF outputs = <<>> THEN 0
    ELSE Head(outputs).confidence + SumConfidence(Tail(outputs))

RECURSIVE SumWeightedSignal(_)
SumWeightedSignal(outputs) ==
    IF outputs = <<>> THEN 0
    ELSE Head(outputs).signal * Head(outputs).confidence
         + SumWeightedSignal(Tail(outputs))

\* sum((output.signal - final_signal) ** 2), with final_signal = fs.n / fs.d,
\* times fs.d squared.
RECURSIVE SumSquaredDeviation(_, _)
SumSquaredDeviation(outputs, fs) ==
    IF outputs = <<>> THEN 0
    ELSE (Head(outputs).signal * fs.d - fs.n) * (Head(outputs).signal * fs.d - fs.n)
         + SumSquaredDeviation(Tail(outputs), fs)

\* final_confidence = avg_confidence * agreement_factor
FinalConfidence(total_weight, n, agreement_factor) ==
    Rat(total_weight * agreement_factor.n, n * agreement_factor.d)

\* DecisionAgent._aggregate_signals, on a non-empty list of valid outputs
_aggregate_signals(outputs) ==
    LET total_weight == SumConfidence(outputs)
        n == Len(outputs)
        final_signal == IF total_weight > 0
                        THEN Rat(SumWeightedSignal(outputs), total_weight)
                        ELSE RatZero
        \* signal_variance = dev / (n * d^2), in tenths squared
        dev == SumSquaredDeviation(outputs, final_signal)
        unit == n * final_signal.d * final_signal.d * 100
        agreement_factor == IF 2 * (unit - dev) >= unit THEN Rat(unit - dev, unit)
                                                        ELSE Rat(1, 2)
    IN  [signal |-> final_signal,
         confidence |-> FinalConfidence(total_weight, n, agreement_factor)]

\* DecisionAgent._make_decision, with settings.strong_signal_threshold 0.7
\* and settings.medium_signal_threshold 0.5
_make_decision(signal, confidence) ==
    IF confidence.n >= 70 * confidence.d /\ signal.n >= 5 * signal.d
    THEN "STRONG_BUY"
    ELSE IF confidence.n >= 70 * confidence.d /\ signal.n <= -5 * signal.d
    THEN "STRONG_SELL"
    ELSE IF confidence.n >= 50 * confidence.d /\ signal.n >= 2 * signal.d
    THEN "BUY"
    ELSE IF confidence.n >= 50 * confidence.d /\ signal.n <= -2 * signal.d
    THEN "SELL"
    ELSE "HOLD"

IsValidOutput(output) == output.has_signal /\ output.confidence > 0

\* DecisionAgent.analyze: the AgentOutput it returns.  decision is "ABSENT"
\* where the metadata has no 'decision' key.
decision_analyze(is_enabled, outputs) ==
    IF ~is_enabled
    THEN [NoDecisionOutput EXCEPT !.decision = "ABSENT", !.status = "disabled"]
    ELSE IF outputs = <<>>
    THEN [NoDecisionOutput EXCEPT !.decision = "ABSENT", !.status = "no_inputs"]
    ELSE LET valid_outputs == SelectSeq(outputs, IsValidOutput)
         IN  IF valid_outputs = <<>>
             THEN [NoDecisionOutput EXCEPT !.decision = "ABSENT",
                                           !.status = "no_valid_inputs"]
             ELSE LET agg == _aggregate_signals(valid_outputs)
                  IN  [signal |-> agg.signal, confidence |-> agg.confidence,
                       decision |-> _make_decision(agg.signal, agg.confidence),
                       status |-> "ok", contributions |-> Len(valid_outputs)]

\* IntegratedTradingSystem._adjust_weights_for_regime
_adjust_weights_for_regime(regime) ==
    IF regime \in {"trending_up", "trending_down"} THEN [ml |-> 13, signal |-> 8]
    ELSE IF regime = "ranging" THEN [ml |-> 8, signal |-> 13]
    ELSE IF regime = "volatile" THEN [ml |-> 7, signal |-> 7]
    ELSE [ml |-> 10, signal |-> 10]

\* _analyze_with_signal_agent: confidence * weight
_analyze_with_signal_agent(weights, signal_output) ==
    AgentOutput(TRUE, signal_output.signal,
                (signal_output.confidence * weights.signal) \div 10)

\* _analyze_with_ml_agent: the recommendation as a signal, confidence * weight
_analyze_with_ml_agent(weights, ml_result) ==
    AgentOutput(TRUE,
                IF ml_result.recommendation = "BUY" THEN 10
                ELSE IF ml_result.recommendation = "SELL" THEN -10 ELSE 0,
                (ml_result.confidence * weights.ml) \div 10)

SystemInit ==
    /\ enabled = TRUE
    /\ enable_signal \in BOOLEAN
    /\ enable_ml \in BOOLEAN
    /\ agent_weights = [ml |-> 10, signal |-> 10]
    /\ agent_outputs = <<>>
    /\ decision_output = NoDecisionOutput
    /\ recommendation = NoRecommendation

\* The aggregation path at rest, for the specifications of the other
\* components.
SystemIdle ==
    /\ enabled = TRUE
    /\ enable_signal = TRUE
    /\ enable_ml = TRUE
    /\ agent_weights = [ml |-> 10, signal |-> 10]
    /\ agent_outputs = <<>>
    /\ decision_output = NoDecisionOutput
    /\ recommendation = NoRecommendation

\* BaseAgent.enable / BaseAgent.disable on the decision agent
SetEnabled ==
    /\ enabled' = ~enabled
    /\ agent_outputs' = <<>>
    /\ decision_output' = NoDecisionOutput
    /\ recommendation' = NoRecommendation
    /\ UNCHANGED <<enable_signal, enable_ml, agent_weights>>
    /\ UNCHANGED <<engineVars, riskVars, metaVars, tradeVars,
                   adaptiveVars, detectorVars, metricsVars>>

\* A direct call of DecisionAgent.analyze
DecisionAnalyze ==
    /\ \E outputs \in DirectLists :
          /\ agent_outputs' = outputs
          /\ decision_output' = decision_analyze(enabled, outputs)
    /\ recommendation' = NoRecommendation
    /\ UNCHANGED <<enabled, enable_signal, enable_ml, agent_weights>>
    /\ UNCHANGED <<engineVars, riskVars, metaVars, tradeVars,
                   adaptiveVars, detectorVars, metricsVars>>

\* IntegratedTradingSystem.analyze on an initialized system
SystemAnalyze ==
    /\ \E regime \in Regimes, sg \in SourceSignals, sc \in SourceConfidences,
          rec \in Recommendations, mc \in SourceConfidences :
          LET weights == _adjust_weights_for_regime(regime)
              outputs ==
                  (IF enable_signal
                   THEN <<_analyze_with_signal_agent(weights,
                              [signal |-> sg, confidence |-> sc])>>
                   ELSE <<>>)
                  \o (IF enable_ml
                      THEN <<_analyze_with_ml_agent(weights,
                                 [recommendation |-> rec, confidence |-> mc])>>
                      ELSE <<>>)
              out == decision_analyze(enabled, outputs)
          IN  /\ agent_weights' = weights
              /\ agent_outputs' = outputs
              /\ IF outputs = <<>>
                 THEN /\ decision_output' = NoDecisionOutput
                      /\ recommendation' = [NoRecommendation EXCEPT
                                                !.raised = "RuntimeError"]
                 ELSE /\ decision_output' = out
                      /\ recommendation' =
                             IF out.decision = "ABSENT"
                             THEN [NoRecommendation EXCEPT !.raised = "KeyError"]
                             ELSE [raised |-> "none", action |-> out.decision,
                                   signal |-> out.signal,
                                   confidence |-> out.confidence,
                                   market_regime |-> regime]
    /\ UNCHANGED <<enabled, enable_signal, enable_ml>>
    /\ UNCHANGED <<engineVars, riskVars, metaVars, tradeVars,
                   adaptiveVars, detectorVars, metricsVars>>

(***************************************************************************)
(* backtesting/models.py: a Trade object on its own                        *)
(***************************************************************************)
TradePrices == {50, 100, 200}

TradeExitPrices == {90, 95, 110, 200}

TradeSizes == {1, 2, 3}

TradeTypes == {"BUY", "SELL"}

\* Trade(...): the constructor takes every field, exit_price and status
\* included.
TradeConstruct ==
    /\ \E tt \in TradeTypes, entry_price \in TradePrices, size \in TradeSizes,
          comm \in Commissions, exit_price \in TradeExitPrices \cup {NULL},
          status \in {"OPEN", "CLOSED"} :
          trade' = [Trade(1, 1, entry_price, tt, size, comm, NULL, NULL)
                       EXCEPT !.exit_price = exit_price,
                              !.exit_time = IF exit_price = NULL THEN NULL ELSE 2,
                              !.status = status]
    /\ UNCHANGED <<engineVars, riskVars, metaVars, systemVars,
                   adaptiveVars, detectorVars, metricsVars>>

\* The assignments _close_trade makes on a Trade
TradeClose ==
    /\ trade # NoTrade
    /\ trade.status = "OPEN"
    /\ \E exit_price \in TradeExitPrices : trade' = ClosedTrade(trade, 2, exit_price)
    /\ UNCHANGED <<engineVars, riskVars, metaVars, systemVars,
                   adaptiveVars, detectorVars, metricsVars>>

(***************************************************************************)
(* backtesting/regime_detector.py  RegimeBasedFilter                       *)
(* backtesting/adaptive_engine.py  AdaptiveBacktestEngine                  *)
(*                                                                         *)
(* A name is spelled as the tuple of its characters, so that the substring *)
(* test of should_trade is the one the code makes.  Returns are in percent *)
(* and confidences in hundredths.  What the regime detector and the        *)
(* per-strategy backtests return to run are inputs of the call.            *)
(***************************************************************************)
MarketRegimes == <<"trending_up", "trending_down", "ranging", "volatile">>

RegimeSet == {MarketRegimes[k] : k \in 1..Len(MarketRegimes)}

\* str.lower, on the letters the names use
Lower(c) ==
    CASE c = "A" -> "a" [] c = "B" -> "b" [] c = "F" -> "f" [] c = "I" -> "i"
      [] c = "M" -> "m" [] c = "R" -> "r" [] c = "S" -> "s" [] c = "T" -> "t"
      [] OTHER -> c

lower(s) == [k \in 1..Len(s) |-> Lower(s[k])]

\* `a in b` for two strings
IsSubstring(a, b) ==
    \E k \in 0..(Len(b) - Len(a)) : SubSeq(b, k + 1, k + Len(a)) = a

Spelling ==
    [name \in {"TrendFollowing", "Breakout", "AdaptiveRSI", "MeanReversion",
               "SafeRSI", "RSI", "Scalping", "trending", "ranging"} |->
        CASE name = "TrendFollowing" ->
                 <<"T","r","e","n","d","F","o","l","l","o","w","i","n","g">>
          [] name = "Breakout"       -> <<"B","r","e","a","k","o","u","t">>
          [] name = "AdaptiveRSI"    -> <<"A","d","a","p","t","i","v","e","R","S","I">>
          [] name = "MeanReversion"  ->
                 <<"M","e","a","n","R","e","v","e","r","s","i","o","n">>
          [] name = "SafeRSI"        -> <<"S","a","f","e","R","S","I">>
          [] name = "RSI"            -> <<"R","S","I">>
          [] name = "Scalping"       -> <<"S","c","a","l","p","i","n","g">>
          [] name = "trending"       -> <<"t","r","e","n","d","i","n","g">>
          [] name = "ranging"        -> <<"r","a","n","g","i","n","g">>]

\* should_trade, lines 255-260: the regime -> strategy-family table
matching ==
    [regime \in RegimeSet |->
        CASE regime = "trending_up"   -> {"TrendFollowing", "Breakout", "AdaptiveRSI"}
          [] regime = "trending_down" -> {"TrendFollowing", "AdaptiveRSI"}
          [] regime = "ranging"       -> {"MeanReversion", "SafeRSI", "RSI"}
          [] regime = "volatile"      -> {"Scalping", "MeanReversion"}]

\* should_trade, lines 262-268
is_compatible(strategy_name, regime) ==
    \E s \in matching[regime] :
        IsSubstring(lower(Spelling[s]), lower(Spelling[strategy_name]))

\* should_trade, lines 250-252: `if confidence < min_confidence: return False`
ConfidenceSufficient(confidence, min_conf) == ~(confidence < min_conf)

should_trade(strategy_name, regime, confidence, min_conf) ==
    /\ ConfidenceSufficient(confidence, min_conf)
    /\ is_compatible(strategy_name, regime)

\* The strategies dict the engine is built with, as its keys in insertion
\* order: the one of examples/test_adaptive_engine.py (three of its keys)
\* and the one of the class docstring.
StrategyDicts ==
    {<<"TrendFollowing", "MeanReversion", "AdaptiveRSI">>, <<"trending", "ranging">>}

min_confidence == 60

DefaultCheckConfidence == 50

CheckCounts == 0..2

CheckConfidences == {50, 70}

Returns == {0, 5}

MaxRuns == 2

\* What the detector returned at the checkpoints of one call: the regime of
\* every checkpoint and the confidence of the last one, the only one run reads.
RegimeChecks ==
    {[regimes |-> rs, confidence |-> c] :
        rs \in UNION {[1..n -> RegimeSet] : n \in CheckCounts},
        c \in CheckConfidences}

ZeroStats == [r \in RegimeSet |-> 0]

RECURSIVE Tally(_, _)
\* lines 141-142: `self.regime_stats[analysis.regime] += 1` for every check
Tally(stats, regimes) ==
    IF regimes = <<>> THEN stats
    ELSE Tally([stats EXCEPT ![Head(regimes)] = @ + 1], Tail(regimes))

\* max(items, key=...) keeps the first of the largest, in the order of the keys
FirstLargest(keys, value(_)) ==
    keys[CHOOSE k \in 1..Len(keys) :
            /\ \A j \in 1..Len(keys) : value(keys[j]) <= value(keys[k])
            /\ \A j \in 1..(k - 1) : value(keys[j]) < value(keys[k])]

\* line 145: the histogram the dominant regime is read from is self.regime_stats,
\* which __init__ creates and run only ever increments
StatsRead(stats, regimes) == Tally(stats, regimes)

NoAdaptiveResult ==
    [outcome |-> "NONE", regimes |-> <<>>, confidence |-> 0,
     dominant_regime |-> "", returns |-> <<>>, best_strategy_name |-> "",
     total_return_pct |-> 0]

\* run, lines 125-216, once the length check has passed
adaptive_run(names, stats, checks, returns) ==
    LET new_stats == StatsRead(stats, checks.regimes)
        dominant_regime == FirstLargest(MarketRegimes, LAMBDA r : new_stats[r])
        confidence == IF checks.regimes # <<>> THEN checks.confidence
                      ELSE DefaultCheckConfidence
        compatible == SelectSeq(names, LAMBDA name :
                         should_trade(name, dominant_regime, confidence, min_confidence))
        compatible_results == IF compatible = <<>> THEN names ELSE compatible
        best == FirstLargest(compatible_results,
                             LAMBDA name : returns[CHOOSE k \in 1..Len(names) : names[k] = name])
    IN  [outcome |-> "RESULT", regimes |-> checks.regimes, confidence |-> confidence,
         dominant_regime |-> dominant_regime, returns |-> returns,
         best_strategy_name |-> best,
         total_return_pct |-> returns[CHOOSE k \in 1..Len(names) : names[k] = best]]

AdaptiveInit ==
    /\ strategies \in StrategyDicts
    /\ regime_stats = ZeroStats
    /\ strategy_usage = [k \in 1..Len(strategies) |-> 0]
    /\ adaptive_result = NoAdaptiveResult

AdaptiveIdle ==
    /\ strategies = <<"trending", "ranging">>
    /\ regime_stats = ZeroStats
    /\ strategy_usage = [k \in 1..2 |-> 0]
    /\ adaptive_result = NoAdaptiveResult

\* AdaptiveBacktestEngine.run on a window that is long enough
AdaptiveRun ==
    /\ \A k \in DOMAIN strategy_usage : strategy_usage[k] < MaxRuns
    /\ \E checks \in RegimeChecks, returns \in [1..Len(strategies) -> Returns] :
          /\ adaptive_result' = adaptive_run(strategies, regime_stats, checks, returns)
          /\ regime_stats' = StatsRead(regime_stats, checks.regimes)
    \* line 161: `self.strategy_usage[name] += 1` for every strategy
    /\ strategy_usage' = [k \in DOMAIN strategy_usage |-> strategy_usage[k] + 1]
    /\ UNCHANGED strategies
    /\ UNCHANGED <<engineVars, riskVars, metaVars, systemVars, tradeVars,
                   detectorVars, metricsVars>>

\* run, lines 95-96: fewer candles than regime_lookback
AdaptiveRunTooShort ==
    /\ adaptive_result' = [NoAdaptiveResult EXCEPT !.outcome = "ValueError"]
    /\ UNCHANGED <<strategies, regime_stats, strategy_usage>>
    /\ UNCHANGED <<engineVars, riskVars, metaVars, systemVars, tradeVars,
                   detectorVars, metricsVars>>

(***************************************************************************)
(* backtesting/regime_detector.py  MarketRegimeDetector                    *)
(*                                                                         *)
(* ADX is a whole number of points (the DX of _calculate_adx, 0 to 100),   *)
(* volatility and its threshold are in tenths of a percent, a confidence   *)
(* is a quotient [n, d].                                                   *)
(***************************************************************************)
DetectorDefaults ==
    [trending_threshold        |-> 25,
     strong_trending_threshold |-> 40,
     high_volatility_threshold |-> 20]

\* The configurations a detector is built with: __init__ stores whatever it
\* is given (lines 42-46).
DetectorConfigs ==
    {DetectorDefaults,
     [DetectorDefaults EXCEPT !.high_volatility_threshold = -20],
     [DetectorDefaults EXCEPT !.trending_threshold = -25]}

ADXValues == {0, 10, 25, 30, 40, 45, 60, 75}

Volatilities == {5, 20, 21, 30, 50}

TrendDirections == {"up", "down"}

RatLE(p, q) == p.n * q.d <= q.n * p.d

RatOne == [n |-> 1, d |-> 1]

\* min(x, 1.0)
MinOne(q) == IF RatLE(q, RatOne) THEN q ELSE RatOne

NoAnalysis ==
    [outcome |-> "NONE", adx |-> 0, volatility |-> 0, trend_direction |-> "",
     regime |-> "", confidence |-> RatZero]

\* line 103
VolatileConfidence(volatility, cfg) ==
    MinOne(Rat(volatility, cfg.high_volatility_threshold))

\* line 109
StrongTrendConfidence(adx) == MinOne(Rat(adx, 60))

\* line 115
ModerateTrendConfidence(adx, cfg) ==
    Rat(adx - cfg.trending_threshold,
        cfg.strong_trending_threshold - cfg.trending_threshold)

\* line 119
RangingConfidence(adx, cfg) ==
    Rat(cfg.trending_threshold - adx, cfg.trending_threshold)

\* _classify_regime, lines 101-120.  The two divisions by a configured value
\* raise ZeroDivisionError when that value is 0.
_classify_regime(adx, volatility, trend_direction, cfg) ==
    LET trend == IF trend_direction = "up" THEN "trending_up" ELSE "trending_down"
        out(regime, confidence) ==
            [outcome |-> "RESULT", adx |-> adx, volatility |-> volatility,
             trend_direction |-> trend_direction, regime |-> regime,
             confidence |-> confidence]
        error == [NoAnalysis EXCEPT !.outcome = "ZeroDivisionError", !.adx = adx,
                                    !.volatility = volatility,
                                    !.trend_direction = trend_direction]
    IN  IF volatility > cfg.high_volatility_threshold
        THEN IF cfg.high_volatility_threshold = 0 THEN error
             ELSE out("volatile", VolatileConfidence(volatility, cfg))
        ELSE IF adx > cfg.strong_trending_threshold
        THEN out(trend, StrongTrendConfidence(adx))
        ELSE IF adx > cfg.trending_threshold
        THEN out(trend, ModerateTrendConfidence(adx, cfg))
        ELSE IF cfg.trending_threshold = 0 THEN error
        ELSE out("ranging", RangingConfidence(adx, cfg))

DetectorInit ==
    /\ detector_cfg \in DetectorConfigs
    /\ regime_analysis = NoAnalysis

DetectorIdle ==
    /\ detector_cfg = DetectorDefaults
    /\ regime_analysis = NoAnalysis

\* detect on a window long enough for the indicators (lines 65-90)
Detect ==
    /\ \E adx \in ADXValues, volatility \in Volatilities,
          trend_direction \in TrendDirections :
          regime_analysis' = _classify_regime(adx, volatility, trend_direction,
                                              detector_cfg)
    /\ UNCHANGED detector_cfg
    /\ UNCHANGED <<engineVars, riskVars, metaVars, systemVars, tradeVars,
                   adaptiveVars, metricsVars>>

\* detect on fewer than max(adx_period * 2, 50) bars (lines 55-63)
DetectTooShort ==
    /\ regime_analysis' = [outcome |-> "RESULT", adx |-> 0, volatility |-> 0,
                           trend_direction |-> "", regime |-> "ranging",
                           confidence |-> Rat(1, 2)]
    /\ UNCHANGED detector_cfg
    /\ UNCHANGED <<engineVars, riskVars, metaVars, systemVars, tradeVars,
                   adaptiveVars, metricsVars>>

(***************************************************************************)
(* backtesting/metrics.py  PerformanceMetrics.calculate_metrics, called    *)
(* directly on a trade list, two capital figures and an equity curve       *)
(***************************************************************************)
MaxMetricsCalls == 2

CurveValues == {9900, 10000, 10200, 10500, 10800}

CurveLengths == 0..5

EquityCurves == UNION {[1..n -> CurveValues] : n \in CurveLengths}

MetricsCapitals == {9900, 10800}

MetricsInitials == {InitialCapital, 2 * InitialCapital}

WinningTrade == ClosedTrade(Trade(1, 1, 100, "BUY", 1, 1, NULL, NULL), 2, 110)

LosingTrade == ClosedTrade(Trade(2, 3, 100, "SELL", 1, 1, NULL, NULL), 4, 105)

StillOpenTrade == Trade(3, 5, 100, "BUY", 1, 1, NULL, NULL)

MetricsTradeLists ==
    {<<>>, <<WinningTrade>>, <<WinningTrade, LosingTrade, StillOpenTrade>>}

MetricsInputs ==
    [trades : MetricsTradeLists, initial_capital : MetricsInitials,
     final_capital : MetricsCapitals, equity_curve : EquityCurves]

ArgumentsConsumed(input) ==
    [input EXCEPT !.equity_curve = IF @ = <<>> THEN @ ELSE Tail(@)]

\* What a call leaves in the objects it was given: calculate_metrics and its
\* helpers build new lists (line 42) and a new array (line 103) and assign to
\* nothing else.
ArgumentsAfterCall(input) == input

MetricsInit ==
    /\ metrics_input \in MetricsInputs
    /\ metrics_results = <<>>

MetricsIdle ==
    /\ metrics_input = [trades |-> <<>>, initial_capital |-> InitialCapital,
                        final_capital |-> InitialCapital, equity_curve |-> <<>>]
    /\ metrics_results = <<>>

\* One call of PerformanceMetrics.calculate_metrics on the same objects.
CalculateMetrics ==
    /\ Len(metrics_results) < MaxMetricsCalls
    /\ metrics_results' =
          Append(metrics_results,
                 calculate_metrics(metrics_input.trades, metrics_input.initial_capital,
                                   metrics_input.final_capital,
                                   metrics_input.equity_curve))
    /\ metrics_input' = ArgumentsAfterCall(metrics_input)
    /\ UNCHANGED <<engineVars, riskVars, metaVars, systemVars, tradeVars,
                   adaptiveVars, detectorVars>>

(***************************************************************************)
(* Construction: the three __init__ methods store the values they are      *)
(* given (risk_management_agent.py 61-72, meta_agent.py 71-78,             *)
(* regime_detector.py 42-46).                                              *)
(***************************************************************************)
ConstructedRiskConfigs ==
    {RiskDefaults,
     [RiskDefaults EXCEPT !.daily_loss_limit_pct = -3],
     [RiskDefaults EXCEPT !.max_daily_trades = -1]}

ConstructedMinConfidences == {50000, -50000}

\* RiskManagementAgent.__init__ with the parameters given
RiskConstructed ==
    /\ risk_cfg \in ConstructedRiskConfigs
    /\ current_balance = account_balance
    /\ peak_balance = account_balance
    /\ daily_trades = [d \in Days |-> 0]
    /\ daily_pnl = [d \in Days |-> 0]
    /\ open_positions = <<>>
    /\ today = 1
    /\ risk_output = NoOutput
    /\ last_call = NoCall
    /\ calls = 0
    /\ loss_days = {}

\* MetaAgentOrchestrator.__init__ with the parameter given
MetaConstructed ==
    /\ min_technical_confidence \in ConstructedMinConfidences
    /\ tech_output = NoTech
    /\ ml_output = NoFilter
    /\ decision = NoDecision

\* A program consults, bar after bar, one of the components it has built.
\* analyze on a risk manager of its own
ConfigAnalyze ==
    /\ tech_output = NoTech
    /\ regime_analysis = NoAnalysis
    /\ Analyze

\* get_decision on an orchestrator: its risk agent is the one __init__ builds,
\* RiskManagementAgent(account_balance=account_balance), with the defaults
ConfigGetDecision ==
    /\ risk_cfg = RiskDefaults
    /\ last_call = NoCall \/ tech_output # NoTech
    /\ regime_analysis = NoAnalysis
    /\ GetDecision

\* detect on a regime detector
ConfigDetect ==
    /\ risk_output = NoOutput
    /\ tech_output = NoTech
    /\ Detect

ConfigDetectTooShort ==
    /\ risk_output = NoOutput
    /\ tech_output = NoTech
    /\ DetectTooShort

(***************************************************************************)
(* Specifications                                                          *)
(***************************************************************************)
\* The engine at rest, for the specifications of the other components.
EngineIdle ==
    /\ market_data = <<100>>
    /\ commission = 0
    /\ capital = InitialCapital
    /\ trades = <<>>
    /\ equity_curve = <<InitialCapital>>
    /\ current_trade = NoTrade
    /\ current_position = "NONE"
    /\ i = 0
    /\ pc = "idle"
    /\ result = NoResult
    /\ opened = 0
    /\ entry_signal = NotAsked
    /\ exit_check = NoCheck

TradeIdle == trade = NoTrade

Init == EngineInit /\ RiskInit /\ MetaIdle /\ SystemIdle /\ TradeIdle
        /\ AdaptiveIdle /\ DetectorIdle /\ MetricsIdle

Next == RunStart \/ BarExit \/ BarEntry \/ BarEquity \/ Finish

Spec == Init /\ [][Next]_vars

InitRisk == EngineIdle /\ RiskInit /\ MetaIdle /\ SystemIdle /\ TradeIdle
        /\ AdaptiveIdle /\ DetectorIdle /\ MetricsIdle

NextRisk == Analyze \/ RecordTrade \/ UpdateBalance \/ ClockTick

SpecRisk == InitRisk /\ [][NextRisk]_vars

InitMeta == EngineIdle /\ RiskInit /\ MetaInit /\ SystemIdle /\ TradeIdle
        /\ AdaptiveIdle /\ DetectorIdle /\ MetricsIdle

NextMeta == GetDecision \/ MetaRecordTrade \/ MetaUpdateBalance \/ ClockTick

SpecMeta == InitMeta /\ [][NextMeta]_vars

InitDecision == EngineIdle /\ RiskInit /\ MetaIdle /\ SystemInit /\ TradeIdle
        /\ AdaptiveIdle /\ DetectorIdle /\ MetricsIdle

NextDecision == DecisionAnalyze \/ SystemAnalyze \/ SetEnabled

SpecDecision == InitDecision /\ [][NextDecision]_vars

InitTrade == EngineIdle /\ RiskInit /\ MetaIdle /\ SystemIdle /\ TradeIdle
        /\ AdaptiveIdle /\ DetectorIdle /\ MetricsIdle

NextTrade == TradeConstruct \/ TradeClose

SpecTrade == InitTrade /\ [][NextTrade]_vars

InitAdaptive == EngineIdle /\ RiskInit /\ MetaIdle /\ SystemIdle /\ TradeIdle
                /\ AdaptiveInit /\ DetectorIdle /\ MetricsIdle

NextAdaptive == AdaptiveRun \/ AdaptiveRunTooShort

SpecAdaptive == InitAdaptive /\ [][NextAdaptive]_vars

InitDetector == EngineIdle /\ RiskInit /\ MetaIdle /\ SystemIdle /\ TradeIdle
                /\ AdaptiveIdle /\ DetectorInit /\ MetricsIdle

NextDetector == Detect \/ DetectTooShort

SpecDetector == InitDetector /\ [][NextDetector]_vars

InitMetrics == EngineIdle /\ RiskInit /\ MetaIdle /\ SystemIdle /\ TradeIdle
               /\ AdaptiveIdle /\ DetectorIdle /\ MetricsInit

NextMetrics == CalculateMetrics

SpecMetrics == InitMetrics /\ [][NextMetrics]_vars

InitConfig == EngineIdle /\ RiskConstructed /\ MetaConstructed /\ SystemIdle /\ TradeIdle
              /\ AdaptiveIdle /\ DetectorInit /\ MetricsIdle

NextConfig == ConfigAnalyze \/ ConfigGetDecision \/ ConfigDetect \/ ConfigDetectTooShort

SpecConfig == InitConfig /\ [][NextConfig]_vars

(***************************************************************************)
(* Claims about BacktestEngine.run (checked under Spec)                    *)
(***************************************************************************)
InRun == pc \notin {"idle", "done"}

LastTrade(ts) == ts[Len(ts)]

\* P&L of a closed trade written out: price move times size, less the
\* commission, once.
NetPnl(t) ==
    (IF t.trade_type = "BUY" THEN t.exit_price - t.entry_price
                             ELSE t.entry_price - t.exit_price) * t.size - t.commission

RECURSIVE SumNetPnl(_)
SumNetPnl(ts) == IF ts = <<>> THEN 0 ELSE NetPnl(Head(ts)) + SumNetPnl(Tail(ts))

\* C1: the engine holds at most one open trade in every state of a run: the
\* trades opened so far exceed the trades closed so far by one exactly when
\* current_trade is set (and by nothing otherwise), the current trade has status
\* OPEN, and no trade of the closed-trade list has status OPEN.
C1_AtMostOneOpenTrade ==
    /\ \A k \in DOMAIN trades : trades[k].status = "CLOSED"
    /\ current_trade # NoTrade => current_trade.status = "OPEN"
    /\ opened - Len(trades) = (IF current_trade # NoTrade THEN 1 ELSE 0)

C1_Witness ==
    /\ pc = BarSteps[1]
    /\ current_trade # NoTrade
    /\ Len(trades) >= 1
    /\ opened = 2

\* C2 as stated: no trade is opened on the bar (index and timestamp) on which
\* the previous trade was closed.
C2_NoReopenOnClosingBar ==
    current_trade # NoTrade =>
        \A k \in DOMAIN trades : trades[k].exit_time # current_trade.entry_time

\* C2 as amended: within a bar the exit check precedes the entry check, so a
\* trade is never exit-checked on the bar that opened it (inside the loop every
\* closed trade has exit_time > entry_time; only the forced close after the
\* last bar can close a trade on its entry bar), and no trade is entered before
\* the previous one was closed; the bar that closes a position may open the next.
C2_ExitBeforeEntry ==
    /\ \A k \in DOMAIN trades :
          \/ trades[k].exit_time > trades[k].entry_time
          \/ /\ pc = "done"
             /\ k = Len(trades)
             /\ trades[k].entry_time = Len(market_data)
             /\ trades[k].exit_time = Len(market_data)
    /\ \A k \in DOMAIN trades :
          k < Len(trades) => trades[k].exit_time <= trades[k + 1].entry_time
    /\ current_trade # NoTrade =>
          \A k \in DOMAIN trades : trades[k].exit_time <= current_trade.entry_time

C2_Witness ==
    /\ current_trade # NoTrade
    /\ \E k \in DOMAIN trades : trades[k].exit_time = current_trade.entry_time

\* C3, state part: when run has returned no position is open, every trade
\* opened is in the result, and every trade of the result is CLOSED with
\* exit_time and exit_price set, the exit price being the close of its exit
\* bar; a trade that is the open position has status OPEN and no exit field.
C3_ResultHoldsOnlyClosedTrades ==
    /\ pc = "done" =>
          /\ current_trade = NoTrade
          /\ Len(result.trades) = opened
          /\ \A k \in DOMAIN result.trades :
                LET t == result.trades[k]
                IN  /\ t.status = "CLOSED"
                    /\ t.exit_time # NULL /\ t.exit_price # NULL
                    /\ t.exit_time \in t.entry_time..Len(market_data)
                    /\ t.exit_price = market_data[t.exit_time]
    /\ current_trade # NoTrade =>
          /\ current_trade.status = "OPEN"
          /\ current_trade.exit_time = NULL
          /\ current_trade.exit_price = NULL

\* C3, step part: a position still open after the last bar is closed by the
\* step that ends the run, at the last bar's close and timestamp.
C3_ForcedCloseAtLastBar ==
    (pc = "finish" /\ current_trade # NoTrade) =>
        /\ current_trade' = NoTrade
        /\ Len(result'.trades) = Len(trades) + 1
        /\ LET t == LastTrade(result'.trades)
           IN  /\ t.id = current_trade.id
               /\ t.entry_time = current_trade.entry_time
               /\ t.exit_time = Len(market_data)
               /\ t.exit_price = market_data[Len(market_data)]

\* C3: when run returns no position is open; a position left open by the loop
\* is force-closed at the last bar's close and timestamp; the result holds only
\* CLOSED trades with both exit fields, and an open position has neither.
C3_NoOpenPositionAtReturn ==
    /\ []C3_ResultHoldsOnlyClosedTrades
    /\ [][C3_ForcedCloseAtLastBar]_vars

C3_Witness ==
    /\ pc = "done"
    /\ Len(result.trades) >= 2
    /\ LastTrade(result.trades).entry_time = Len(market_data)
    /\ LastTrade(result.trades).exit_time = Len(market_data)

\* C4, state part: capital is the initial capital plus the P&L of the closed
\* trades, each P&L carrying its commission once, and the result's capital
\* difference is the P&L sum of the result's trades.
C4_CapitalIsInitialPlusClosedPnl ==
    /\ capital = InitialCapital + SumPnl(trades)
    /\ capital = InitialCapital + SumNetPnl(trades)
    /\ pc = "done" =>
          /\ result.final_capital - result.initial_capital = SumPnl(result.trades)
          /\ result.total_return = SumNetPnl(result.trades)

\* C4, step part: within a run capital changes only in a step that appends a
\* closed trade, by that trade's profit_loss; a step that opens a trade leaves
\* capital unchanged.
C4_CapitalChangesOnlyAtClose ==
    /\ (InRun /\ capital' # capital) =>
          /\ Len(trades') = Len(trades) + 1
          /\ capital' - capital = NetPnl(LastTrade(trades'))
    /\ (InRun /\ Len(trades') = Len(trades) + 1) =>
          capital' - capital = NetPnl(LastTrade(trades'))
    /\ (InRun /\ opened' = opened + 1) => capital' = capital

\* C4: realized capital changes only when a trade closes, by that trade's
\* profit_loss (commission charged once, at close, not at entry); in every
\* state capital = initial_capital + sum of profit_loss over the closed trades,
\* and final_capital - initial_capital of the result is the P&L sum of its trades.
C4_CapitalAccounting ==
    /\ []C4_CapitalIsInitialPlusClosedPnl
    /\ [][C4_CapitalChangesOnlyAtClose]_vars

C4_Witness ==
    /\ pc = "done"
    /\ commission = 1
    /\ Len(result.trades) >= 2
    /\ result.final_capital # result.initial_capital
    /\ \E k \in DOMAIN result.trades : result.trades[k].trade_type = "SELL"
    /\ \E k \in DOMAIN result.trades : result.trades[k].trade_type = "BUY"

(***************************************************************************)
(* Claims about RiskManagementAgent (checked under SpecRisk)               *)
(***************************************************************************)
Range(seq) == { seq[k] : k \in DOMAIN seq }

Evaluated == risk_output # NoOutput

\* C5, step part: a step in which analyze ran leaves the account untouched;
\* the balance and the peak move only in a record_trade step (by the realized
\* P&L handed to it) or an update_balance step (to the balance handed to it),
\* and the daily counters only in a record_trade step, under its date.
C5_OnlyRecordingMutates ==
    /\ last_call'.op = "analyze" => UNCHANGED accountVars
    /\ risk_output' # NoOutput => UNCHANGED accountVars
    /\ (current_balance' # current_balance \/ peak_balance' # peak_balance) =>
          \/ /\ last_call'.op = "record_trade"
             /\ current_balance' = current_balance + last_call'.pnl
          \/ /\ last_call'.op = "update_balance"
             /\ current_balance' = last_call'.new_balance
    /\ (daily_trades' # daily_trades \/ daily_pnl' # daily_pnl) =>
          /\ last_call'.op = "record_trade"
          /\ daily_trades' = [daily_trades EXCEPT ![last_call'.date] = @ + 1]
          /\ daily_pnl' = [daily_pnl EXCEPT ![last_call'.date] = @ + last_call'.pnl]

\* C5: risk evaluation (analyze), approving or rejecting, leaves
\* current_balance, peak_balance, daily_trades, daily_pnl and open_positions
\* unchanged; they change only through record_trade / update_balance.
C5_EvaluationIsReadOnly == [][C5_OnlyRecordingMutates]_vars

C5_Witness ==
    /\ last_call.op = "analyze"
    /\ risk_output.risk_decision = "APPROVED"
    /\ calls >= 1
    /\ current_balance # account_balance
    /\ daily_trades[today] >= 1

\* C6, step part: no step lowers the peak, and a record_trade or
\* update_balance step leaves it at max(previous peak, new balance).
C6_PeakStep ==
    /\ peak_balance' >= peak_balance
    /\ calls' = calls + 1 =>
          peak_balance' = (IF current_balance' > peak_balance
                           THEN current_balance' ELSE peak_balance)

\* C6, state part: the peak is never below the balance, so the drawdown
\* (peak - balance) / peak is >= 0 before any clamping.
C6_PeakBoundsBalance ==
    /\ peak_balance >= current_balance
    /\ peak_balance >= account_balance
    /\ (peak_balance - current_balance) * 100 >= 0
    /\ _calculate_current_drawdown.n >= 0
    /\ _calculate_current_drawdown.n = (peak_balance - current_balance) * 100
    /\ _calculate_current_drawdown.d = peak_balance

\* C6: over any sequence of record_trade and update_balance calls peak_balance
\* never decreases and after each call equals max(previous peak, new balance);
\* hence peak_balance >= current_balance and the drawdown is >= 0.
C6_PeakIsMonotone == []C6_PeakBoundsBalance /\ [][C6_PeakStep]_vars

C6_Witness ==
    /\ calls >= 2
    /\ peak_balance > account_balance
    /\ current_balance < account_balance
    /\ last_call.op = "update_balance"

ReqDirection == IF last_call.signal > 0 THEN 1 ELSE -1

ReqStopWrong ==
    IF ReqDirection > 0 THEN last_call.stop_loss >= last_call.price
                        ELSE last_call.stop_loss <= last_call.price

ReqTargetWrong ==
    IF ReqDirection > 0 THEN last_call.take_profit <= last_call.price
                        ELSE last_call.take_profit >= last_call.price

\* |take_profit - price| / |price - stop_loss| < min_risk_reward
ReqPoorRR ==
    Abs(last_call.take_profit - last_call.price) * 10
        < risk_cfg.min_risk_reward_x10 * Abs(last_call.price - last_call.stop_loss)

AccountViolations ==
    When((peak_balance - current_balance) * 100
             >= risk_cfg.max_portfolio_drawdown_pct * peak_balance, R_MaxDrawdown)
    \o When(Len(open_positions) >= risk_cfg.max_concurrent_trades, R_MaxConcurrent)
    \o When(daily_trades[today] >= risk_cfg.max_daily_trades, R_DailyTrades)
    \o When(Abs(daily_pnl[today]) * 100
                >= risk_cfg.daily_loss_limit_pct * account_balance, R_DailyLoss)

SizingViolations ==
    When(ReqStopWrong, R_InvalidSL)
    \o When(ReqTargetWrong, R_InvalidTP)
    \o When(~ReqStopWrong /\ ~ReqTargetWrong /\ ReqPoorRR, R_PoorRR)

Decided == decision # NoDecision

TechnicalFails ==
    tech_output.confidence < min_technical_confidence \/ Abs(tech_output.signal) < 10

IsZeroHold(d) ==
    /\ d.action = "HOLD"
    /\ d.final_signal = 0
    /\ d.final_confidence = 0
    /\ d.position_size.n = 0

\* C7: the stages run in the order technical, ML filter, risk.  When the
\* technical stage fails, the decision is HOLD with final_signal,
\* final_confidence and position_size 0 and exactly one technical veto reason,
\* and neither the ML filter nor the risk agent is called.  Otherwise the ML
\* filter is called on the technical output; when it says REJECT - however
\* strong the technical signal - the decision is the same zero HOLD with the
\* veto reason "ML Filter rejected" and the risk agent is not called.
\* Otherwise the risk agent is called; when it rejects, the decision is the
\* zero HOLD whose veto reasons are the risk agent's rejection reasons.  The
\* reasoning chain names exactly the stages that ran, in that order.
C7_FirstFailingStageVetoes ==
    Decided =>
        IF TechnicalFails
        THEN /\ IsZeroHold(decision)
             /\ decision.veto_reasons \in {<<V_LowConfidence>>, <<V_NoSignal>>}
             /\ (tech_output.confidence < min_technical_confidence
                    => decision.veto_reasons = <<V_LowConfidence>>)
             /\ decision.reasoning_chain = <<"Technical">>
             /\ ml_output = NoFilter
             /\ risk_output = NoOutput
        ELSE /\ ml_output # NoFilter
             /\ ml_output = ml_filter_analyze(tech_output)
             /\ IF ml_output.filter_decision = "REJECT"
                THEN /\ IsZeroHold(decision)
                     /\ decision.veto_reasons = <<V_MLRejected>>
                     /\ decision.reasoning_chain = <<"Technical", "ML Filter">>
                     /\ risk_output = NoOutput
                ELSE /\ risk_output # NoOutput
                     /\ decision.reasoning_chain = <<"Technical", "ML Filter", "Risk">>
                     /\ (risk_output.risk_decision = "REJECTED"
                            => /\ IsZeroHold(decision)
                               /\ decision.veto_reasons # <<>>
                               /\ decision.veto_reasons = risk_output.rejection_reasons)
                     /\ (risk_output.risk_decision = "APPROVED"
                            => /\ decision.veto_reasons \in {<<>>, <<V_WeakSignal>>}
                               /\ decision.position_size = risk_output.position_size)

\* A strong technical signal (0.8) that passes the technical stage and is
\* vetoed by the ML filter: the risk agent was not called.
C7_Witness ==
    /\ Decided
    /\ Abs(tech_output.signal) = 80
    /\ tech_output.confidence >= min_technical_confidence
    /\ ml_output.filter_decision = "REJECT"
    /\ decision.action = "HOLD"
    /\ decision.veto_reasons = <<V_MLRejected>>
    /\ risk_output = NoOutput

\* Thresholds at least as tight as the ones in force: a minimum technical
\* confidence that is raised or kept, a maximum portfolio drawdown, a daily
\* loss limit, a trade-count limit and a position limit that are lowered or
\* kept, a minimum reward-to-risk that is raised or kept.
TighterMinConfidences == {c \in {30000, 50000, 70000, 90000} : c >= min_technical_confidence}

TighterRiskConfigs ==
    { [max_risk_per_trade_pct     |-> risk_cfg.max_risk_per_trade_pct,
       max_portfolio_drawdown_pct |-> dd,
       max_concurrent_trades      |-> risk_cfg.max_concurrent_trades,
       max_daily_trades           |-> dt,
       daily_loss_limit_pct       |-> dl,
       min_risk_reward_x10        |-> rr] :
          dd \in {x \in {4, 8} : x <= risk_cfg.max_portfolio_drawdown_pct},
          dt \in {x \in {1, 3} : x <= risk_cfg.max_daily_trades},
          dl \in {x \in {1, 3} : x <= risk_cfg.daily_loss_limit_pct},
          rr \in {x \in {15, 20} : x >= risk_cfg.min_risk_reward_x10} }

VetoedUnder(min_conf, cfg) ==
    get_decision(min_conf, cfg, tech_output).decision.action = "HOLD"

\* C8: tightening thresholds never turns a vetoed decision into an approved
\* one.  For the input and the account state of the decision just returned,
\* if get_decision holds under the thresholds in force then it holds under
\* every tighter setting; and if the risk agent rejected, it rejects under
\* every tighter risk configuration.
C8_TighteningKeepsVeto ==
    Decided =>
        /\ decision = get_decision(min_technical_confidence, risk_cfg, tech_output).decision
        /\ \A mc \in TighterMinConfidences, cfg \in TighterRiskConfigs :
              /\ decision.action = "HOLD" => VetoedUnder(mc, cfg)
              /\ (risk_output.risk_decision = "REJECTED"
                     => analyze(cfg, [signal |-> last_call.signal,
                                      confidence |-> last_call.confidence],
                                last_call.price, last_call.stop_loss,
                                last_call.take_profit).risk_decision = "REJECTED")

\* A decision vetoed by the risk agent for drawdown under the thresholds in
\* force, with a tighter setting that differs from them and under which the
\* technical stage already vetoes it.
C8_Witness ==
    /\ Decided
    /\ decision.action = "HOLD"
    /\ R_MaxDrawdown \in Range(decision.veto_reasons)
    /\ \E mc \in TighterMinConfidences, cfg \in TighterRiskConfigs :
          /\ mc > min_technical_confidence
          /\ cfg # risk_cfg
          /\ get_decision(mc, cfg, tech_output).decision.veto_reasons = <<V_LowConfidence>>

(***************************************************************************)
(* Claims about position sizing and approval                               *)
(***************************************************************************)
Approved == Evaluated /\ risk_output.risk_decision = "APPROVED"

RatEq(q, n, d) == q.n * d = n * q.d

\* The scenario: balance 10,000, risk 1% per trade, a long at 2000 with
\* stop-loss 1980 and take-profit 2040.
C11_Scenario ==
    /\ Approved
    /\ current_balance = 10000
    /\ risk_cfg.max_risk_per_trade_pct = 1
    /\ last_call.signal > 0
    /\ last_call.price = 2000
    /\ last_call.stop_loss = 1980
    /\ last_call.take_profit = 2040

\* C11 as stated: in the scenario the evaluation yields risk_amount = 100,
\* position_size = 5.0 and risk_reward_ratio = 2.0.
C11_ScenarioSizeFive ==
    C11_Scenario =>
        /\ RatEq(risk_output.risk_amount, 100, 1)
        /\ RatEq(risk_output.position_size, 5, 1)
        /\ RatEq(risk_output.risk_reward_ratio, 2, 1)

\* C11 as amended: in the scenario the evaluation yields risk_amount = 100 and
\* risk_reward_ratio = 2.0; the risk-based size 100 / 20 = 5.0 has a notional
\* of 10,000, above 10% of the balance, and the position_size returned is the
\* capped 1000 / 2000 = 0.5.
C11_ScenarioSizeCapped ==
    C11_Scenario =>
        /\ RatEq(risk_output.risk_amount, 100, 1)
        /\ RatEq(risk_output.position_size, 1, 2)
        /\ RatEq(risk_output.risk_reward_ratio, 2, 1)
        /\ risk_output.stop_loss = 1980
        /\ risk_output.take_profit = 2040

C11_Witness ==
    /\ C11_Scenario
    /\ peak_balance = 10000
    /\ RatEq(risk_output.position_size, 1, 2)

\* The size the risk rule alone gives for the request:
\* risk_amount / |entry - stop_loss|.
ReqRiskBasedSize ==
    Rat(current_balance * risk_cfg.max_risk_per_trade_pct,
        100 * Abs(last_call.price - last_call.stop_loss))

ReqOverCap ==
    ReqRiskBasedSize.n * last_call.price * 10 > current_balance * ReqRiskBasedSize.d

ReqSmallSize == ReqRiskBasedSize.n * 100 < ReqRiskBasedSize.d

\* C12: for every approved evaluation position_size x entry price is at most
\* 10% of the current balance; when the risk-based size exceeds that cap the
\* size returned is exactly (10% of balance) / price, and the output returned
\* to the caller of the evaluation carries the warning that reports the
\* reduction.
C12_CapAppliedAndReported ==
    Approved =>
        /\ risk_output.position_size.n * last_call.price * 10
              <= current_balance * risk_output.position_size.d
        /\ ReqOverCap =>
              /\ RatEq(risk_output.position_size, current_balance, 10 * last_call.price)
              /\ W_PositionLimited \in Range(risk_output.warnings)

\* C13: for an approved evaluation the output confidence is the input
\* confidence, times 0.9 if any warning was raised during the evaluation
\* (high drawdown, small position or position cap), times 0.95 in addition if
\* risk_reward_ratio < 2.0, and unchanged if neither applies.
C13_ConfidenceDiscounts ==
    Approved =>
        LET c0 == last_call.confidence
            warned == DrawdownHigh(risk_cfg) \/ ReqSmallSize \/ ReqOverCap
            c1 == IF warned THEN (c0 * 9) \div 10 ELSE c0
            c2 == IF Abs(last_call.take_profit - last_call.price) * 10
                       < 20 * Abs(last_call.price - last_call.stop_loss)
                  THEN (c1 * 95) \div 100 ELSE c1
        IN  risk_output.confidence = c2

(***************************************************************************)
(* Claims about the aggregators                                            *)
(***************************************************************************)
Aggregated == decision_output.status = "ok"

\* The list handed to the decision agent was empty, or held only invalid
\* outputs (no signal, or confidence <= 0), and a call was made.
NothingValid ==
    /\ decision_output # NoDecisionOutput \/ recommendation # NoRecommendation
    /\ \A k \in 1..Len(agent_outputs) : ~IsValidOutput(agent_outputs[k])

\* C14: the aggregated signal lies in [-1, 1] and the aggregated confidence
\* in [0, 1], for the staged aggregator (get_decision's final_signal and
\* final_confidence) and for the confidence-weighted aggregator
\* (DecisionAgent), also when the latter is fed the regime-weighted outputs
\* of IntegratedTradingSystem.
C14_AggregatesInRange ==
    /\ Aggregated =>
          /\ decision_output.signal.n >= -10 * decision_output.signal.d
          /\ decision_output.signal.n <= 10 * decision_output.signal.d
          /\ decision_output.confidence.n >= 0
          /\ decision_output.confidence.n <= 100 * decision_output.confidence.d
    /\ Decided =>
          /\ decision.final_signal \in -10000..10000
          /\ decision.final_confidence \in 0..10000000

\* C15: for an empty list, or a list of invalid outputs only, the aggregation
\* path yields HOLD with signal 0 and confidence 0 and raises nothing.  Stated
\* here in its weakest reading: the decision agent's output has signal 0 and
\* confidence 0, and for a non-empty list of invalid outputs nothing is raised
\* and the recommendation of IntegratedTradingSystem.analyze, when that was
\* the call, is HOLD.
C15_NothingValidGivesHold ==
    NothingValid =>
        /\ decision_output.signal.n = 0
        /\ decision_output.confidence.n = 0
        /\ agent_outputs # <<>> =>
              /\ recommendation.raised = "none"
              /\ recommendation # NoRecommendation => recommendation.action = "HOLD"

(***************************************************************************)
(* Claims about the trade lifecycle of BacktestEngine.run                  *)
(***************************************************************************)
\* The exit levels of a trade as the claim states them, on a close price.  A
\* level that is None or 0 is not a level (the code tests the level's truth
\* value).
HasLevel(level) == level # NULL /\ level # 0

ExitLevelReached(t, close) ==
    IF t.trade_type = "BUY"
    THEN \/ HasLevel(t.stop_loss) /\ close <= t.stop_loss
         \/ HasLevel(t.take_profit) /\ close >= t.take_profit
    ELSE \/ HasLevel(t.stop_loss) /\ close >= t.stop_loss
         \/ HasLevel(t.take_profit) /\ close <= t.take_profit

ClosedOnThisBar ==
    /\ current_trade' = NoTrade
    /\ Len(trades') = Len(trades) + 1
    /\ LastTrade(trades').id = current_trade.id
    /\ LastTrade(trades').status = "CLOSED"
    /\ LastTrade(trades').exit_price = market_data[i]
    /\ LastTrade(trades').exit_time = i

\* The exit check of a bar that starts with an open position: a level reached
\* closes the trade at this bar's close without asking the strategy;
\* otherwise the strategy is asked, and the trade is closed at this bar's
\* close exactly when it answers true.
C16_ExitStep ==
    (pc = "exit" /\ HasOpenTrade) =>
        /\ exit_check'.checked
        /\ IF ExitLevelReached(current_trade, market_data[i])
           THEN ClosedOnThisBar /\ ~exit_check'.asked
           ELSE /\ exit_check'.asked
                /\ IF exit_check'.answer
                   THEN ClosedOnThisBar
                   ELSE current_trade' = current_trade /\ trades' = trades

\* No bar between a trade's entry bar and its exit bar reached one of its
\* levels, and none since the entry bar of the open trade did: the bar that
\* closes a trade on a level is the first such bar after its entry.
C16_FirstBar ==
    /\ \A k \in 1..Len(trades) :
          \A b \in (trades[k].entry_time + 1)..(trades[k].exit_time - 1) :
              ~ExitLevelReached(trades[k], market_data[b])
    /\ (HasOpenTrade /\ InRun) =>
          \A b \in (current_trade.entry_time + 1)..(i - 1) :
              ~ExitLevelReached(current_trade, market_data[b])

\* C16: an open long is closed on the first bar whose close is <= its
\* stop-loss or >= its take-profit, an open short on the first bar whose close
\* is >= its stop-loss or <= its take-profit, or on the first bar where
\* should_exit returns true; the levels are tested before the strategy's
\* predicate, and the trade exits at that bar's close.
C16_ExitOnFirstHit == []C16_FirstBar /\ [][C16_ExitStep]_vars

\* A trade with levels, held over a bar that reached neither while the
\* strategy said stay, and closed on the next bar by its stop-loss.
C16_Witness ==
    /\ trades # <<>>
    /\ LET t == LastTrade(trades)
       IN  /\ t.exit_time = t.entry_time + 2
           /\ HasLevel(t.stop_loss)
           /\ HasLevel(t.take_profit)
           /\ StopLossHit(t, t.exit_price)
           /\ t.exit_price = market_data[t.exit_time]
    /\ exit_check.checked
    /\ ~exit_check.asked

\* C17: on a bar with no open position the engine opens a long if and only if
\* the entry decision is BUY, a short if and only if it is SELL, and nothing
\* for any other return value; the trade is opened at the bar's close, with an
\* id greater than the id of every trade opened earlier in the run.
C17_OpensOnBuyOrSellOnly ==
    entry_signal # NotAsked =>
        /\ (HasOpenTrade /\ current_trade.trade_type = "BUY") <=> entry_signal = "BUY"
        /\ (HasOpenTrade /\ current_trade.trade_type = "SELL") <=> entry_signal = "SELL"
        /\ HasOpenTrade =>
              /\ current_trade.entry_price = market_data[i]
              /\ current_trade.entry_time = i
              /\ \A k \in 1..Len(trades) : trades[k].id < current_trade.id

\* The floating P&L of a position at a close price: the price move in the
\* position's favour times its size, 0 without a position.
FloatingPnl(t, close) ==
    IF t = NoTrade THEN 0
    ELSE IF t.trade_type = "BUY" THEN (close - t.entry_price) * t.size
    ELSE (t.entry_price - close) * t.size

\* The curve starts with initial_capital and holds one more value per
\* finished bar.
C18_CurveLength ==
    /\ equity_curve # <<>>
    /\ equity_curve[1] = InitialCapital
    /\ pc = "idle" => Len(equity_curve) = 1
    /\ pc \in {"exit", "entry", "equity"} => Len(equity_curve) = i
    /\ pc \in {"finish", "done"} => Len(equity_curve) = Len(market_data) + 1

\* The equity update of a bar appends realized capital plus floating P&L at
\* the bar's close, whatever happened to the trade on that bar; no other step
\* of the loop touches the curve.
C18_EquityStep ==
    /\ pc = "equity" =>
          equity_curve' = Append(equity_curve,
                                 capital + FloatingPnl(current_trade, market_data[i]))
    /\ pc \in {"exit", "entry", "finish"} => equity_curve' = equity_curve

\* C18: run appends exactly one equity value per bar, on every bar, equal to
\* realized capital plus the floating P&L of the open position at that bar's
\* close; the curve starts with initial_capital, so after k bars it holds
\* k + 1 values.
C18_OneEquityValuePerBar == []C18_CurveLength /\ [][C18_EquityStep]_vars

\* A finished run over three bars or more: a trade opened on the first bar
\* (floating P&L 0 at its entry close) that has a floating P&L on the second.
C18_Witness ==
    /\ pc = "done"
    /\ Len(market_data) >= 3
    /\ Len(equity_curve) = Len(market_data) + 1
    /\ equity_curve[2] = InitialCapital
    /\ equity_curve[3] # InitialCapital
    /\ trades # <<>>
    /\ trades[1].entry_time = 1

(***************************************************************************)
(* Claims about Trade                                                      *)
(***************************************************************************)
TradeIsClosed == trade # NoTrade /\ trade.status = "CLOSED" /\ trade.exit_price # NULL

\* C19: for a closed trade profit_loss = (exit - entry) x size - commission
\* for a long and (entry - exit) x size - commission for a short, and
\* profit_loss_pct = profit_loss / (entry x size) x 100; a long 100 to 110 and
\* a short 100 to 90, each with size 1 and commission 0, give P&L 10 and 10%;
\* a trade that is still open reports 0 for both.
C19_TradePnl ==
    /\ TradeIsClosed =>
          LET move == IF trade.trade_type = "BUY"
                      THEN trade.exit_price - trade.entry_price
                      ELSE trade.entry_price - trade.exit_price
              pnl == move * trade.size - trade.commission
          IN  /\ profit_loss(trade) = pnl
              /\ RatEq(profit_loss_pct(trade), pnl * 100, trade.entry_price * trade.size)
    /\ ( /\ TradeIsClosed
         /\ trade.entry_price = 100 /\ trade.size = 1 /\ trade.commission = 0
         /\ \/ trade.trade_type = "BUY" /\ trade.exit_price = 110
            \/ trade.trade_type = "SELL" /\ trade.exit_price = 90 )
          => /\ profit_loss(trade) = 10
             /\ RatEq(profit_loss_pct(trade), 10, 1)
    /\ (trade # NoTrade /\ trade.status = "OPEN")
          => /\ profit_loss(trade) = 0
             /\ profit_loss_pct(trade).n = 0

\* The short of the scenario, opened at 100 and closed at 90 by _close_trade's
\* assignments.
C19_Witness ==
    /\ TradeIsClosed
    /\ trade.trade_type = "SELL"
    /\ trade.entry_price = 100
    /\ trade.exit_price = 90
    /\ trade.size = 1
    /\ trade.commission = 0
    /\ profit_loss(trade) = 10

(***************************************************************************)
(* Claims about the action of an all-pass decision                         *)
(***************************************************************************)
AllStagesPassed == Decided /\ risk_output.risk_decision = "APPROVED"

\* C20: when all stages pass, the action is BUY if and only if
\* final_signal > 0.3, SELL if and only if final_signal < -0.3, and HOLD
\* otherwise; the boundary values +0.3 and -0.3 give HOLD; exactly in that
\* HOLD case the 'weak final signal' veto reason is recorded.
C20_ActionMapping ==
    AllStagesPassed =>
        /\ decision.action \in {"BUY", "SELL", "HOLD"}
        /\ decision.action = "BUY" <=> decision.final_signal > 3000
        /\ decision.action = "SELL" <=> decision.final_signal < -3000
        /\ decision.final_signal \in {3000, -3000} => decision.action = "HOLD"
        /\ Abs(tech_output.signal) = 30 => decision.action = "HOLD"
        /\ decision.action = "HOLD" <=> V_WeakSignal \in Range(decision.veto_reasons)
        /\ decision.action = "HOLD" => decision.veto_reasons = <<V_WeakSignal>>

\* All stages passed on a technical signal of exactly 0.3: HOLD with the weak
\* signal reason and the size the risk agent approved.
C20_Witness ==
    /\ AllStagesPassed
    /\ tech_output.signal = 30
    /\ decision.final_signal = 3000
    /\ decision.action = "HOLD"
    /\ decision.veto_reasons = <<V_WeakSignal>>
    /\ decision.position_size.n > 0

(***************************************************************************)
(* Claims about AdaptiveBacktestEngine.run (checked under SpecAdaptive)    *)
(***************************************************************************)
StrategyNames == {strategies[k] : k \in 1..Len(strategies)}

\* the total return the backtest of a strategy gave the last call
ReturnOf(name) ==
    adaptive_result.returns[CHOOSE k \in 1..Len(strategies) : strategies[k] = name]

\* the regimes no other regime outnumbers among the checkpoints of one call
PluralityRegimes(regimes) ==
    LET counts == Tally(ZeroStats, regimes)
    IN  {r \in RegimeSet : \A q \in RegimeSet : counts[q] <= counts[r]}

NameMatches(regime) == {name \in StrategyNames : is_compatible(name, regime)}

Candidates(regime) ==
    IF NameMatches(regime) = {} THEN StrategyNames ELSE NameMatches(regime)

HighestReturn(names) ==
    {name \in names : \A other \in names : ReturnOf(other) <= ReturnOf(name)}

\* C21: the result run returns is that of a strategy with the highest total
\* return among the strategies whose name matches the compatibility table for
\* the dominant regime (among all strategies when none matches), the dominant
\* regime being a plurality regime of the checkpoints of that very call.
C21_BestOfDominantRegime ==
    adaptive_result.outcome = "RESULT" =>
        \E dominant \in PluralityRegimes(adaptive_result.regimes) :
            /\ adaptive_result.best_strategy_name \in HighestReturn(Candidates(dominant))
            /\ adaptive_result.total_return_pct =
                   ReturnOf(adaptive_result.best_strategy_name)

(***************************************************************************)
(* Claims about MarketRegimeDetector (checked under SpecDetector)          *)
(***************************************************************************)
\* the last detect classified a window long enough, under the default thresholds
ClassifiedByDefault ==
    /\ regime_analysis.outcome = "RESULT"
    /\ regime_analysis.trend_direction # ""
    /\ detector_cfg = DetectorDefaults

TrendLabel == IF regime_analysis.trend_direction = "up" THEN "trending_up"
                                                        ELSE "trending_down"

\* The priority order, the range of the confidence, the formula of the three
\* ADX branches and the example of the claim.
C22_Branches ==
    ClassifiedByDefault =>
        LET a == regime_analysis
            cfg == detector_cfg
        IN  /\ RatLE(RatZero, a.confidence) /\ RatLE(a.confidence, RatOne)
            /\ IF a.volatility > cfg.high_volatility_threshold
               THEN a.regime = "volatile"
               ELSE IF a.adx > cfg.strong_trending_threshold
               THEN /\ a.regime = TrendLabel
                    /\ RatEq(a.confidence, IF a.adx < 60 THEN a.adx ELSE 60, 60)
               ELSE IF a.adx > cfg.trending_threshold
               THEN /\ a.regime = TrendLabel
                    /\ RatEq(a.confidence, a.adx - 25, 40 - 25)
               ELSE /\ a.regime = "ranging"
                    /\ RatEq(a.confidence, 25 - a.adx, 25)
            /\ (a.adx = 45 /\ a.trend_direction = "up"
                   /\ a.volatility <= cfg.high_volatility_threshold)
               => a.regime = "trending_up" /\ ~RatLE(a.confidence, Rat(1, 2))

\* Of two successive volatile classifications under the default thresholds,
\* the one further above the threshold has the greater confidence.
C22_VolatileScales ==
    (/\ ClassifiedByDefault
     /\ regime_analysis.regime = "volatile"
     /\ regime_analysis'.outcome = "RESULT"
     /\ regime_analysis'.regime = "volatile"
     /\ regime_analysis.volatility < regime_analysis'.volatility)
    => ~RatLE(regime_analysis'.confidence, regime_analysis.confidence)

\* C22: classification applies the priority order volatile, strong trend,
\* moderate trend, ranging, with a confidence in [0, 1] in every branch that
\* scales, for volatile, with how far volatility is above the threshold, for a
\* strong trend toward 1 at ADX 60, linearly between 25 and 40 for a moderate
\* trend, and rises as ADX falls toward 0 for ranging; ADX 45 with SMA20 >
\* SMA50 and volatility not above the threshold gives trending_up with
\* confidence above 0.5.
C22_Classification == []C22_Branches /\ [][C22_VolatileScales]_vars

(***************************************************************************)
(* Claims about PerformanceMetrics (checked under SpecMetrics)             *)
(***************************************************************************)
\* the largest equity[i] - equity[j] over i <= j, 0 for an empty curve
LargestDrop(curve) ==
    IF curve = <<>> THEN 0
    ELSE LET pairs == {p \in (1..Len(curve)) \X (1..Len(curve)) : p[1] <= p[2]}
             drops == {curve[p[1]] - curve[p[2]] : p \in pairs}
         IN  CHOOSE d \in drops : \A e \in drops : e <= d

ScenarioCurve == <<10000, 10500, 10200, 10800, 9900>>

\* C23: max_drawdown is the largest drop from a running maximum of the equity
\* curve to a later value (0 for a non-decreasing curve), max_drawdown_pct is
\* that amount as a percentage of initial capital, and the curve 10000, 10500,
\* 10200, 10800, 9900 with initial capital 10000 gives 900 and 9.0%.
C23_MaxDrawdown ==
    \A k \in 1..Len(metrics_results) :
        LET r == metrics_results[k]
            curve == metrics_input.equity_curve
            initial == metrics_input.initial_capital
        IN  /\ r.max_drawdown = LargestDrop(curve)
            /\ RatEq(r.max_drawdown_pct, LargestDrop(curve) * 100, initial)
            /\ (\A a \in 1..(Len(curve) - 1) : curve[a] <= curve[a + 1])
                   => r.max_drawdown = 0
            /\ (curve = ScenarioCurve /\ initial = InitialCapital)
                   => r.max_drawdown = 900 /\ RatEq(r.max_drawdown_pct, 9, 1)

C23_Witness ==
    /\ metrics_results # <<>>
    /\ metrics_input.equity_curve = ScenarioCurve
    /\ metrics_input.initial_capital = InitialCapital
    /\ metrics_results[1].max_drawdown = 900

\* every call made so far on these objects returned the same result, the one
\* the function gives for them
C25_SameResults ==
    \A k \in 1..Len(metrics_results) :
        /\ metrics_results[k] = metrics_results[1]
        /\ metrics_results[k] =
               calculate_metrics(metrics_input.trades, metrics_input.initial_capital,
                                 metrics_input.final_capital, metrics_input.equity_curve)

\* a call leaves the trade list, the capital figures and the equity curve as
\* they were
C25_ArgumentsKept == metrics_input' = metrics_input

ValidRiskConfig(cfg) ==
    /\ cfg.max_risk_per_trade_pct >= 0
    /\ cfg.max_portfolio_drawdown_pct >= 0
    /\ cfg.max_concurrent_trades >= 0
    /\ cfg.max_daily_trades >= 0
    /\ cfg.daily_loss_limit_pct >= 0
    /\ cfg.min_risk_reward_x10 >= 0

ValidDetectorConfig(cfg) ==
    /\ cfg.trending_threshold >= 0
    /\ cfg.strong_trending_threshold >= 0
    /\ cfg.high_volatility_threshold >= 0

\* C24: no risk manager, aggregator or regime detector built with a negative
\* threshold, limit or percentage exists and is consulted: construction with
\* such a value fails.
C24_InvalidConfigurationNeverConsulted ==
    /\ risk_output # NoOutput => ValidRiskConfig(risk_cfg)
    /\ decision # NoDecision => min_technical_confidence >= 0
    /\ regime_analysis # NoAnalysis => ValidDetectorConfig(detector_cfg)

(***************************************************************************)
(* Further claims about BacktestEngine.run (checked under Spec)            *)
(***************************************************************************)
LastEquity == equity_curve[Len(equity_curve)]

\* C26 as stated: when run has returned, the last value of the equity curve
\* equals final_capital, also after a forced close with a commission.
C26_LastEquityIsFinalCapital ==
    pc = "done" => LastEquity = result.final_capital

\* the step of run after the loop: the curve stays as the last bar left it,
\* and final_capital is its last value less the commission of a trade that
\* was still open
C26_FinishStep ==
    (pc = "finish" /\ pc' = "done") =>
        /\ equity_curve' = equity_curve
        /\ result'.final_capital = capital'
        /\ result'.final_capital =
               LastEquity - (IF HasOpenTrade THEN current_trade.commission ELSE 0)

\* C26, amended: the last value of the curve equals final_capital when no
\* position was open after the final bar, and final_capital plus the
\* commission of the force-closed trade otherwise.
C26_LastEquityLacksForcedCommission == [][C26_FinishStep]_vars

\* a run returned after a forced close that cost a commission
C26_Witness ==
    /\ pc = "done"
    /\ commission = 1
    /\ trades # <<>>
    /\ trades[Len(trades)].exit_time = Len(market_data)
    /\ LastEquity = result.final_capital + 1

\* C27, state part: the list of open positions is empty, the configured
\* maximum is at least 1, and no evaluation is rejected for concurrency.
C27_NoSlotOccupied ==
    /\ open_positions = <<>>
    /\ Len(open_positions) < risk_cfg.max_concurrent_trades
    /\ Evaluated => R_MaxConcurrent \notin Range(risk_output.rejection_reasons)

\* C27, step part: no operation adds to or removes from open_positions, and
\* an evaluation that follows an approval not yet recorded as closed is not
\* rejected for concurrency.
C27_ListUntouched ==
    /\ open_positions' = open_positions
    /\ (Approved /\ last_call'.op = "analyze") =>
          R_MaxConcurrent \notin Range(risk_output'.rejection_reasons)

C28_DailyChecksReadToday ==
    (Evaluated /\ Abs(last_call.signal) >= 10) =>
        /\ R_DailyTrades \in Range(risk_output.rejection_reasons)
             <=> daily_trades[today] >= risk_cfg.max_daily_trades
        /\ R_DailyLoss \in Range(risk_output.rejection_reasons)
             <=> Abs(daily_pnl[today]) * 100
                     >= risk_cfg.daily_loss_limit_pct * account_balance
        /\ (daily_trades[today] = 0 /\ daily_pnl[today] = 0) =>
             /\ R_DailyTrades \notin Range(risk_output.rejection_reasons)
             /\ R_DailyLoss \notin Range(risk_output.rejection_reasons)

\* C28, step part: record_trade files the count and the P&L under the date of
\* the trade's timestamp, so a trade of another date leaves the counters of
\* the wall-clock date as they were.
C28_RecordFilesUnderTradeDate ==
    last_call'.op = "record_trade" =>
        /\ daily_trades' = [daily_trades EXCEPT ![last_call'.date] = @ + 1]
        /\ daily_pnl' = [daily_pnl EXCEPT ![last_call'.date] = @ + last_call'.pnl]
        /\ last_call'.date # today =>
              /\ daily_trades'[today] = daily_trades[today]
              /\ daily_pnl'[today] = daily_pnl[today]

\* C28: the daily trade-count and daily-loss checks of analyze look up the
\* wall-clock date, record_trade files under the date of the trade's
\* timestamp; a trade recorded under date D bears on the daily checks of an
\* evaluation only when the wall clock reads D, and trades recorded under
\* other (historical) dates never trigger either daily limit.
C28_DailyChecksUseWallClock ==
    []C28_DailyChecksReadToday /\ [][C28_RecordFilesUnderTradeDate]_vars

C28_Witness ==
    /\ Evaluated
    /\ Abs(last_call.signal) >= 10
    /\ \E d \in Days \ {today} :
          /\ daily_trades[d] >= risk_cfg.max_daily_trades
          /\ Abs(daily_pnl[d]) * 100 >= risk_cfg.daily_loss_limit_pct * account_balance
    /\ daily_trades[today] = 0
    /\ R_DailyTrades \notin Range(risk_output.rejection_reasons)
    /\ R_DailyLoss \notin Range(risk_output.rejection_reasons)
    /\ risk_output.risk_decision = "APPROVED"

C30_StageSignalsIdentical ==
    AllStagesPassed =>
        /\ ml_output.filter_decision = "APPROVE"
        /\ ml_output.signal = tech_output.signal
        /\ risk_output.signal = tech_output.signal
        /\ decision.final_signal = tech_output.signal * 100
        /\ ~SignalsDisagree(tech_output.signal, ml_output.signal, risk_output.signal)
        /\ decision.final_confidence =
              Clip(tech_output.confidence * 50 + ml_output.confidence * 20
                       + risk_output.confidence * 30, 0, 10000000)

\* All stages passed on a medium-confidence technical signal, the filter and
\* the risk agent each with a confidence of their own.
C30_Witness ==
    /\ AllStagesPassed
    /\ tech_output.signal = -80
    /\ tech_output.confidence = 60000
    /\ ml_output.confidence # tech_output.confidence
    /\ risk_output.confidence # ml_output.confidence
    /\ ml_output.signal = -80
    /\ risk_output.signal = -80
    /\ decision.final_signal = -8000
    /\ decision.action = "SELL"

====
